---- MODULE Spec2Model ----
(***************************************************************************)
(* Verification model of the signal-and-backtest simulation engines of the *)
(* trading-bot repository.                                                 *)
(*                                                                         *)
(* Prices, cash and P&L are Python floats in the source.  Here they are    *)
(* exact fixed-point integers: every amount of an engine is a whole number *)
(* of that engine's money unit, chosen so that every product with a        *)
(* percentage, slippage or commission fraction is exact.  The model is     *)
(* therefore the real-number reading of the arithmetic (no float rounding).*)
(* Dates are the bar indices (the DataFrame index is increasing).          *)
(***************************************************************************)
EXTENDS Integers, Sequences, FiniteSets, TLC

VARIABLES
    \* src/src/backtest/backtest_engine.py : BacktestEngine.run_backtest
    bt_pc, bt_n, bt_i, bt_cur, bt_capital, bt_position, bt_trades,
    bt_equity_curve, bt_results, bt_opened, bt_initial_capital,
    \* the frame given to run_backtest and the runs made on one engine instance
    bt_insufficient, bt_bad, bt_run, bt_bars, bt_first,
    \* src/src/backtesting/backtest_engine.py : BacktestEngine.run_backtest
    btg_pc, btg_n, btg_i, btg_cur, btg_capital, btg_position, btg_trades,
    btg_equity_curve,
    \* src/backtest_runner.py : what run_backtest got back and did with it
    btg_results, btg_outcome, btg_all_results,
    \* src/backtesting/backtest_engine.py : BacktestEngine._simulate_trading
    sim_pc, sim_n, sim_i, sim_cur, sim_equity, sim_position, sim_trades,
    sim_equity_curve,
    \* src/src/backtest/backtester.py : Backtester._simulate_trades
    bk_pc, bk_n, bk_i, bk_row, bk_current_trade, bk_trades,
    \* RiskManager.calculate_position_size, both risk managers
    rk_pc, rk_args, rk_quantity,
    \* src/src/strategies/momentum_strategy.py : MomentumStrategy.backtest
    ms_pc, ms_n, ms_i, ms_cur, ms_capital, ms_position, ms_trades,
    ms_equity_curve,
    \* src/src/risk/risk_manager.py : RiskManager.open_positions (one position)
    pos_pc, pos_calls, pos_position, pos_daily_pnl,
    \* generate_signals of MomentumStrategy and of RuleBasedStrategy
    sg_pc, sg_strategy, sg_first, sg_n, sg_i, sg_row, sg_out,
    \* src/strategies/multi_indicator_strategy.py : MultiIndicatorStrategy
    mis_calls, mis_last_signal, mis_op, mis_signal, mis_current_position,
    mis_result,
    \* the symbol loops of run_portfolio_backtest and Backtester.run
    pf_pc, pf_engine, pf_inputs, pf_i, pf_results,
    \* _calculate_metrics of the two BacktestEngine classes under src/src
    mt_pc, mt_engine, mt_pnls, mt_final_capital, mt_days, mt_results,
    \* one call of TechnicalIndicators.calculate_supertrend
    st_pc, st_df, st_i, st_final_upper, st_final_lower, st_direction,
    \* one call of apply_trailing_stop
    ts_pc, ts_n, ts_i, ts_row, ts_prev_position, ts_current_stop, ts_trail,
    \* src/trading_bot.py : the trading cycles of one TradingBot
    lc_cycles, lc_position, lc_last_signal, lc_signal, lc_branch, lc_entered,
    lc_closed_after_buy,
    \* src/trading_bot/main.py : the loop of run_live_trading
    lv_pc, lv_iterations, lv_max_positions, lv_current_positions, lv_positions,
    lv_signal, lv_raised

varsBT == <<bt_pc, bt_n, bt_i, bt_cur, bt_capital, bt_position,
            bt_trades, bt_equity_curve, bt_results, bt_opened,
            bt_initial_capital, bt_insufficient, bt_bad, bt_run, bt_bars,
            bt_first>>

varsBTG == <<btg_pc, btg_n, btg_i, btg_cur, btg_capital, btg_position,
             btg_trades, btg_equity_curve, btg_results, btg_outcome,
             btg_all_results>>

varsSIM == <<sim_pc, sim_n, sim_i, sim_cur, sim_equity, sim_position,
             sim_trades, sim_equity_curve>>

varsBK == <<bk_pc, bk_n, bk_i, bk_row, bk_current_trade, bk_trades>>

varsRK == <<rk_pc, rk_args, rk_quantity>>

varsMS == <<ms_pc, ms_n, ms_i, ms_cur, ms_capital, ms_position, ms_trades,
            ms_equity_curve>>

varsPOS == <<pos_pc, pos_calls, pos_position, pos_daily_pnl>>

varsSG == <<sg_pc, sg_strategy, sg_first, sg_n, sg_i, sg_row, sg_out>>

varsMIS == <<mis_calls, mis_last_signal, mis_op, mis_signal,
             mis_current_position, mis_result>>

varsPF == <<pf_pc, pf_engine, pf_inputs, pf_i, pf_results>>

varsMT == <<mt_pc, mt_engine, mt_pnls, mt_final_capital, mt_days, mt_results>>

varsST == <<st_pc, st_df, st_i, st_final_upper, st_final_lower, st_direction>>

varsTS == <<ts_pc, ts_n, ts_i, ts_row, ts_prev_position, ts_current_stop, ts_trail>>

varsLC == <<lc_cycles, lc_position, lc_last_signal, lc_signal, lc_branch,
            lc_entered, lc_closed_after_buy>>

varsLV == <<lv_pc, lv_iterations, lv_max_positions, lv_current_positions,
            lv_positions, lv_signal, lv_raised>>

vars == <<varsBT, varsBTG, varsSIM, varsBK, varsRK, varsMS, varsPOS, varsSG,
          varsMIS, varsPF, varsMT, varsST, varsTS, varsLC, varsLV>>

\* ------------------------------------------------------------------ bounds
MaxCalls == 3
MaxSymbols == 3
MaxTrades == 3
MaxRows == 6
MaxTrail == 4
MaxCycles == 4
MaxBars == 4

\* Largest number of update_position calls on one position
MaxUpdates == 3

\* ----------------------------------------------------------------- helpers
None == [type |-> "NONE"]

Abs(x) == IF x < 0 THEN -x ELSE x

Min(a, b) == IF a < b THEN a ELSE b

Max(a, b) == IF a > b THEN a ELSE b

RECURSIVE SumPnl(_)
SumPnl(ts) == IF ts = <<>> THEN 0 ELSE ts[1].pnl + SumPnl(Tail(ts))

\* ======================================================================
\* Engine "bt": src/src/backtest/backtest_engine.py with
\* src/src/strategy/trading_strategy.py and src/src/risk/risk_manager.py
\* ======================================================================

\* Fractions slippage and commission are tenths (n / FracDen).
FracDen == 5 + 5

\* Money unit of this engine: 1 rupee = bt_Unit units.
bt_Unit == 100 * FracDen * FracDen * FracDen

\* Config (src/config.py), percentages
RISK_PER_TRADE == 2
STOP_LOSS_PERCENT == 2
TRAILING_STOP_PERCENT == 1
MAX_DAILY_LOSS == 5
MAX_POSITION_SIZE == 20

\* BacktestEngine.__init__ arguments: initial_capital (kept in the field
\* self.initial_capital, the variable bt_initial_capital) in rupees,
\* commission and slippage in tenths
bt_InitialCapitals == {100 * bt_Unit, 1000 * bt_Unit}
bt_commission == 1
bt_slippage == 1

\* (Low, Close, High) of a bar, in rupees
bt_Shapes == { <<100, 100, 100>>, <<110, 110, 110>>, <<109, 110, 111>>,
               <<97, 98, 99>>, <<120, 121, 121>> }

\* (MACD, MACD_Signal) of a bar
bt_Macd == { <<0, 1>>, <<1, 1>>, <<2, 1>>, <<1, 0>> }

\* Rows of the DataFrame after calculate_all_indicators.  defined = FALSE is
\* a warm-up row whose indicator columns are NaN.
bt_Rows ==
    { [Low |-> s[1] * bt_Unit, Close |-> s[2] * bt_Unit, High |-> s[3] * bt_Unit,
       defined |-> TRUE, RSI |-> r, MACD |-> m[1], MACD_Signal |-> m[2],
       Supertrend_Direction |-> d, EMA |-> e * bt_Unit]
      : s \in bt_Shapes, r \in {25, 45, 75}, m \in bt_Macd, d \in {1, -1},
        e \in {99, 111} }
    \cup
    { [Low |-> s[1] * bt_Unit, Close |-> s[2] * bt_Unit, High |-> s[3] * bt_Unit,
       defined |-> FALSE, RSI |-> 0, MACD |-> 0, MACD_Signal |-> 0,
       Supertrend_Direction |-> 0, EMA |-> 0]
      : s \in bt_Shapes }

NoRow == [defined |-> FALSE, Low |-> 0, Close |-> 0, High |-> 0, RSI |-> 0,
          MACD |-> 0, MACD_Signal |-> 0, Supertrend_Direction |-> 0, EMA |-> 0]

\* TradingStrategy._check_entry_conditions: <<signal, entry_price, stop_loss>>
\* NaN comparisons are False, so an undefined previous row gives no crossover.
check_entry_conditions(current, previous) ==
    IF ~current.defined THEN <<0, 0, 0>>
    ELSE
    LET rsi_oversold == current.RSI < 30
        rsi_overbought_reversal ==
            current.RSI > 70 /\ previous.defined /\ previous.RSI <= 70
        macd_bullish_crossover ==
            /\ current.MACD > current.MACD_Signal
            /\ previous.defined /\ previous.MACD <= previous.MACD_Signal
        macd_above_signal == current.MACD > current.MACD_Signal
        supertrend_uptrend == current.Supertrend_Direction = 1
        price_above_ema == current.Close > current.EMA
        entry_price == current.Close
        stop_loss == (entry_price * (100 - STOP_LOSS_PERCENT)) \div 100
    IN  IF /\ (rsi_oversold \/ rsi_overbought_reversal)
           /\ macd_bullish_crossover /\ supertrend_uptrend /\ price_above_ema
        THEN <<1, entry_price, stop_loss>>
        ELSE IF /\ macd_above_signal /\ supertrend_uptrend /\ price_above_ema
                /\ current.RSI < 50
        THEN <<1, entry_price, stop_loss>>
        ELSE <<0, 0, 0>>

\* TradingStrategy.calculate_signals, row i.  insufficient is
\* len(df) < max(ema_period, macd_slow, supertrend_period): the frame is then
\* returned with Signal = 0 on every row; otherwise the loop starts at i = 1
calculate_signals(insufficient, i, current, previous) ==
    IF insufficient THEN <<0, 0, 0>>
    ELSE IF i < 1 THEN <<0, 0, 0>>
    ELSE check_entry_conditions(current, previous)

\* The two stop levels of check_exit_conditions
bt_StopLevel(entry_price) == (entry_price * (100 - STOP_LOSS_PERCENT)) \div 100

bt_TrailLevel(highest) == (highest * (100 - TRAILING_STOP_PERCENT)) \div 100

\* check_exit_conditions with the trailing stop tested before the stop loss
check_exit_conditions_trail_first(current, previous, has_previous, entry_price, highest) ==
    IF current.Low <= (highest * (100 - TRAILING_STOP_PERCENT)) \div 100
    THEN <<TRUE, "Trailing Stop Loss",
           (highest * (100 - TRAILING_STOP_PERCENT)) \div 100>>
    ELSE IF current.Low <= (entry_price * (100 - STOP_LOSS_PERCENT)) \div 100
    THEN <<TRUE, "Stop Loss Hit",
           (entry_price * (100 - STOP_LOSS_PERCENT)) \div 100>>
    ELSE IF current.defined /\ current.RSI > 70
    THEN <<TRUE, "RSI Overbought", current.Close>>
    ELSE IF /\ has_previous /\ current.defined /\ previous.defined
            /\ current.MACD < current.MACD_Signal
            /\ previous.MACD >= previous.MACD_Signal
    THEN <<TRUE, "MACD Bearish Crossover", current.Close>>
    ELSE IF current.defined /\ current.Supertrend_Direction = -1
    THEN <<TRUE, "Supertrend Downtrend", current.Close>>
    ELSE IF current.defined /\ current.Close < current.EMA
    THEN <<TRUE, "Price Below EMA", current.Close>>
    ELSE <<FALSE, "", 0>>

\* TradingStrategy.check_exit_conditions for a LONG position:
\* <<should_exit, reason, exit_price>>.  highest is the maximum of High over
\* the rows entry_index..current_index.
check_exit_conditions(current, previous, has_previous, entry_price, highest) ==
    IF current.Low <= bt_StopLevel(entry_price)
    THEN <<TRUE, "Stop Loss Hit", bt_StopLevel(entry_price)>>
    ELSE IF current.Low <= bt_TrailLevel(highest)
    THEN <<TRUE, "Trailing Stop Loss", bt_TrailLevel(highest)>>
    ELSE IF current.defined /\ current.RSI > 70
    THEN <<TRUE, "RSI Overbought", current.Close>>
    ELSE IF /\ has_previous /\ current.defined /\ previous.defined
            /\ current.MACD < current.MACD_Signal
            /\ previous.MACD >= previous.MACD_Signal
    THEN <<TRUE, "MACD Bearish Crossover", current.Close>>
    ELSE IF current.defined /\ current.Supertrend_Direction = -1
    THEN <<TRUE, "Supertrend Downtrend", current.Close>>
    ELSE IF current.defined /\ current.Close < current.EMA
    THEN <<TRUE, "Price Below EMA", current.Close>>
    ELSE <<FALSE, "", 0>>

\* TradingStrategy.get_signal_strength, in tenths
get_signal_strength(current) ==
    IF ~current.defined THEN 0
    ELSE
    LET rsi_part == IF current.RSI < 30 THEN 3
                    ELSE IF current.RSI < 40 THEN 2 ELSE 0
        diff == current.MACD - current.MACD_Signal
        macd_part ==
            IF current.MACD > current.MACD_Signal
            THEN IF current.MACD_Signal = 0 THEN 0
                 ELSE IF diff * 100 >= 3 * Abs(current.MACD_Signal) THEN 3
                 ELSE (diff * 100) \div Abs(current.MACD_Signal)
            ELSE 0
        st_part == IF current.Supertrend_Direction = 1 THEN 2 ELSE 0
        ema_part == IF current.Close > current.EMA THEN 2 ELSE 0
    IN  Min(10, rsi_part + macd_part + st_part + ema_part)

\* src/src/risk/risk_manager.py : RiskManager.calculate_position_size.
\* capital is RiskManager.capital, daily_pnl is RiskManager.daily_pnl,
\* signal_strength is in tenths; risk_amount1000 is 1000 * risk_amount.
risk_calculate_position_size(capital, daily_pnl, entry_price, stop_loss_price, signal_strength) ==
    LET risk_amount1000 == capital * RISK_PER_TRADE * signal_strength
        price_risk == Abs(entry_price - stop_loss_price)
        max_position_value == (capital * MAX_POSITION_SIZE) \div 100
    IN  IF daily_pnl * 100 <= -(capital * MAX_DAILY_LOSS) THEN 0
        ELSE IF price_risk = 0 THEN 0
        ELSE
        LET size1 == risk_amount1000 \div (1000 * price_risk)
            size2 == IF size1 * entry_price > max_position_value
                     THEN max_position_value \div entry_price
                     ELSE size1
        IN  IF size2 = 0 /\ risk_amount1000 > 0 THEN 1 ELSE size2

\* price * (1 + slippage) and price * (1 - slippage)
bt_SlipUp(price) == (price * (FracDen + bt_slippage)) \div FracDen

bt_SlipDown_none(price) == price

bt_SlipDown(price) == (price * (FracDen - bt_slippage)) \div FracDen

\* The trade recorded when a LONG position is closed at exit_price
\* (already adjusted for slippage) on date exit_date.
bt_Trade(position, exit_price, exit_date, exit_reason) ==
    LET gross == (exit_price - position.entry_price) * position.quantity
        commission_cost ==
            ((position.entry_price + exit_price) * position.quantity
                * bt_commission) \div FracDen
    IN  [entry_date |-> position.entry_date, exit_date |-> exit_date,
         entry_price |-> position.entry_price, exit_price |-> exit_price,
         quantity |-> position.quantity, pnl |-> gross - commission_cost,
         exit_reason |-> exit_reason]

bt_NoResults == [returned |-> FALSE]

\* nothing kept of an earlier run
bt_NoFirst == [trades |-> <<>>, equity_curve |-> <<>>]

\* run_backtest line 66: self.equity_curve = [self.initial_capital]
bt_reset_equity_curve_empty == <<>>

bt_reset_equity_curve == <<bt_initial_capital>>

\* run_backtest line 123: the guard of the entry branch
bt_entry_guard_signal_only(position, signal) == signal = 1

\* Lines 158-163 with the flat branch recording no equity
bt_total_equity_nothing_when_flat(capital, position, close) ==
    IF position # None THEN capital + close * position.quantity ELSE 0

\* Lines 158-163: cash plus the open position at the bar's close
bt_total_equity(capital, position, close) ==
    IF position # None THEN capital + close * position.quantity ELSE capital

\* Line 139 with the capital check dropped (every sized entry is taken)
bt_enough_capital_always(position_value, capital) == TRUE

\* Line 139: if position_value <= capital
bt_enough_capital(position_value, capital) == position_value <= capital

bt_entry_guard(position, signal) == position = None /\ signal = 1

\* The engine is not part of the run under study.
bt_Idle ==
    /\ bt_pc = "idle" /\ bt_n = 0 /\ bt_i = 0 /\ bt_cur = NoRow
    /\ bt_capital = 0 /\ bt_position = None /\ bt_trades = <<>>
    /\ bt_equity_curve = <<>> /\ bt_results = bt_NoResults /\ bt_opened = 0
    /\ bt_initial_capital = 0
    /\ bt_insufficient = FALSE /\ bt_bad = FALSE /\ bt_run = 0
    /\ bt_bars = <<>> /\ bt_first = bt_NoFirst

\* State after BacktestEngine.__init__ and the reset at lines 64-70.
bt_Init ==
    /\ bt_pc = "loop"
    /\ bt_initial_capital \in bt_InitialCapitals
    /\ bt_n \in 1..MaxBars
    /\ bt_i = 0
    /\ bt_cur = NoRow
    /\ bt_capital = bt_initial_capital
    /\ bt_position = None
    /\ bt_trades = <<>>
    /\ bt_equity_curve = bt_reset_equity_curve
    /\ bt_results = bt_NoResults
    /\ bt_opened = 0
    /\ bt_insufficient = FALSE
    /\ bt_bad = FALSE
    /\ bt_run = 1
    /\ bt_bars = <<>>
    /\ bt_first = bt_NoFirst

\* One iteration of the bar loop of run_backtest (lines 75-166) on row
bt_Step(row) ==
    /\ bt_pc = "loop"
    /\ bt_i < bt_n
    /\ LET i == bt_i
               sig == calculate_signals(bt_insufficient, i, row, bt_cur)
               highest == IF bt_position = None THEN 0
                          ELSE Max(bt_position.highest, row.High)
               ex == IF bt_position = None THEN <<FALSE, "", 0>>
                     ELSE check_exit_conditions(row, bt_cur, i > 0,
                              bt_position.entry_price, highest)
               trade == bt_Trade(bt_position, bt_SlipDown(ex[3]), i, ex[2])
               capital1 == IF ex[1] THEN bt_capital + trade.pnl ELSE bt_capital
               position1 == IF ex[1] THEN None
                            ELSE IF bt_position = None THEN None
                            ELSE [bt_position EXCEPT !.highest = highest]
               trades1 == IF ex[1] THEN Append(bt_trades, trade) ELSE bt_trades
               quantity == risk_calculate_position_size(bt_initial_capital, 0,
                               sig[2], sig[3], get_signal_strength(row))
               entry_price_with_slippage == bt_SlipUp(sig[2])
               position_value == entry_price_with_slippage * quantity
               enter == /\ bt_entry_guard(position1, sig[1]) /\ quantity > 0
                        /\ bt_enough_capital(position_value, capital1)
               position2 == IF enter
                            THEN [type |-> "LONG", entry_date |-> i,
                                  entry_price |-> entry_price_with_slippage,
                                  stop_loss |-> sig[3], quantity |-> quantity,
                                  entry_index |-> i, highest |-> row.High]
                            ELSE position1
               capital2 == IF enter THEN capital1 - position_value ELSE capital1
               total_equity == bt_total_equity(capital2, position2, row.Close)
           IN  /\ bt_capital' = capital2
               /\ bt_position' = position2
               /\ bt_trades' = trades1
               /\ bt_equity_curve' = Append(bt_equity_curve, total_equity)
               /\ bt_opened' = IF enter THEN bt_opened + 1 ELSE bt_opened
               /\ bt_cur' = row
    /\ bt_i' = bt_i + 1
    /\ UNCHANGED <<bt_pc, bt_n, bt_results, bt_initial_capital, bt_insufficient,
                   bt_run, bt_first>>
    /\ UNCHANGED <<varsBTG, varsSIM, varsBK, varsRK, varsMS, varsPOS, varsSG,
                 varsMIS, varsPF,
                   varsMT,
                   varsST,
                   varsTS,
                   varsLC,
                   varsLV>>

\* The bar loop on a frame of at least max(period) well-formed rows
bt_Bar ==
    \E row \in bt_Rows :
        \* indicator warm-up rows are a prefix of the frame
        /\ (~row.defined) => (bt_i = 0 \/ ~bt_cur.defined)
        /\ bt_Step(row)
        /\ UNCHANGED <<bt_bad, bt_bars>>

\* The rows of one symbol's frame: warm-up rows, then rows of a stock that
\* trades above its EMA with a mid-range RSI
bt_SymbolRows ==
    { r \in bt_Rows : r.defined => (r.RSI = 45 /\ r.EMA = 99 * bt_Unit) }

\* Rows no exchange produces: High below Low
bt_MalformedRows ==
    { [r EXCEPT !.Low = r.High, !.High = r.Low] :
        r \in { x \in bt_SymbolRows : x.Low < x.High } }

\* df.index[i] - df.index[i-1] in days: 1 in a well-formed frame, 0 for a
\* duplicated timestamp, -1 for a bar out of order
bt_DateSteps == {0 - 1, 0, 1}

\* run_backtest is handed any frame: possibly shorter than the largest
\* indicator period, possibly with malformed bars
bt_InitAnyFrame ==
    /\ bt_pc = "loop"
    /\ bt_initial_capital \in bt_InitialCapitals
    /\ bt_n \in 1..MaxBars
    /\ bt_i = 0
    /\ bt_cur = NoRow
    /\ bt_capital = bt_initial_capital
    /\ bt_position = None
    /\ bt_trades = <<>>
    /\ bt_equity_curve = bt_reset_equity_curve
    /\ bt_results = bt_NoResults
    /\ bt_opened = 0
    /\ bt_insufficient \in BOOLEAN
    /\ bt_bad = FALSE
    /\ bt_run = 1
    /\ bt_bars = <<>>
    /\ bt_first = bt_NoFirst

\* The bar loop on any frame.  calculate_signals adds no indicator column to
\* a frame it finds too short; bt_bad records that a bar seen so far has
\* High < Low or a timestamp not after the one before it.
bt_BarAnyFrame ==
    \E row \in bt_SymbolRows \cup bt_MalformedRows, date_step \in bt_DateSteps :
        /\ bt_insufficient => ~row.defined
        /\ (~row.defined) => (bt_i = 0 \/ ~bt_cur.defined)
        /\ bt_Step(row)
        /\ bt_bad' = (bt_bad \/ row.High < row.Low \/ (bt_i > 0 /\ date_step <= 0))
        /\ UNCHANGED bt_bars

\* Rows of the frames used to run one engine instance several times: an
\* uptrend (MACD above its signal line, Supertrend up) around 110 rupees,
\* with a rally to 121 and a fall to 98
bt_RerunRows ==
    { r \in bt_SymbolRows : /\ r.defined
                            /\ r.Supertrend_Direction = 1
                            /\ r.MACD = 2 /\ r.MACD_Signal = 1
                            /\ r.Close # 100 * bt_Unit }

\* run_backtest line 65: self.trades = []
bt_reset_trades_kept == bt_trades

bt_reset_trades == <<>>

\* First run of a new engine instance: the frame is remembered in bt_bars
bt_FirstRunBar ==
    /\ bt_run = 1
    /\ \E row \in bt_RerunRows :
        /\ bt_Step(row)
        /\ bt_bars' = Append(bt_bars, row)
    /\ UNCHANGED bt_bad

\* Second run of the same instance, on the frame of any symbol
bt_OtherRunBar ==
    /\ bt_run = 2
    /\ \E row \in bt_RerunRows : bt_Step(row)
    /\ UNCHANGED <<bt_bad, bt_bars>>

\* Third run of the same instance, on the frame of the first run
bt_SameRunBar ==
    /\ bt_run = 3
    /\ bt_i < Len(bt_bars)
    /\ bt_Step(bt_bars[bt_i + 1])
    /\ UNCHANGED <<bt_bad, bt_bars>>

\* run_backtest is called again on the instance (lines 64-73); bt_first
\* keeps what the first run returned
bt_RunAgain ==
    /\ bt_pc = "done"
    /\ bt_run < 3
    /\ bt_run' = bt_run + 1
    /\ bt_first' = IF bt_run = 1
                   THEN [trades |-> bt_trades, equity_curve |-> bt_equity_curve]
                   ELSE bt_first
    /\ bt_trades' = bt_reset_trades
    /\ bt_equity_curve' = bt_reset_equity_curve
    /\ bt_capital' = bt_initial_capital
    /\ bt_position' = None
    /\ bt_i' = 0
    /\ bt_cur' = NoRow
    /\ bt_results' = bt_NoResults
    /\ bt_opened' = 0
    /\ bt_pc' = "loop"
    /\ UNCHANGED <<bt_n, bt_initial_capital, bt_insufficient, bt_bad, bt_bars>>
    /\ UNCHANGED <<varsBTG, varsSIM, varsBK, varsRK, varsMS, varsPOS, varsSG,
                 varsMIS, varsPF,
                   varsMT,
                   varsST,
                   varsTS,
                   varsLC,
                   varsLV>>

\* BacktestEngine._calculate_metrics: the keys of the result the model needs.
\* With an empty trade log the result has no equity_curve key.
bt_calculate_metrics(trades, equity_curve, final_capital) ==
    IF trades = <<>>
    THEN [returned |-> TRUE, total_trades |-> 0, final_capital |-> final_capital]
    ELSE [returned |-> TRUE, total_trades |-> Len(trades),
          final_capital |-> final_capital, trades |-> trades,
          equity_curve |-> equity_curve]

\* After the loop (lines 168-198): close any open position at the last close,
\* then compute the metrics and return.
bt_Finish ==
    /\ bt_pc = "loop"
    /\ bt_i = bt_n
    /\ LET final_price_with_slippage == bt_SlipDown(bt_cur.Close)
           trade == bt_Trade(bt_position, final_price_with_slippage, bt_n - 1,
                             "End of Data")
           capital1 == IF bt_position # None THEN bt_capital + trade.pnl
                       ELSE bt_capital
           trades1 == IF bt_position # None THEN Append(bt_trades, trade)
                      ELSE bt_trades
       IN  /\ bt_capital' = capital1
           /\ bt_trades' = trades1
           /\ bt_results' = bt_calculate_metrics(trades1, bt_equity_curve, capital1)
    /\ bt_pc' = "done"
    /\ UNCHANGED <<bt_n, bt_i, bt_cur, bt_position, bt_equity_curve, bt_opened,
                   bt_initial_capital, bt_insufficient, bt_bad, bt_run, bt_bars,
                   bt_first>>
    /\ UNCHANGED <<varsBTG, varsSIM, varsBK, varsRK, varsMS, varsPOS, varsSG,
                 varsMIS, varsPF,
                   varsMT,
                   varsST,
                   varsTS,
                   varsLC,
                   varsLV>>


\* ======================================================================
\* Engine "btg": src/src/backtesting/backtest_engine.py
\* ======================================================================

\* Slippage and commission of this engine are hundredths (n / btg_Den), like
\* the stop-loss and take-profit percentages.
btg_Den == 10 * 10

\* Money unit of this engine: 1 rupee = btg_Unit units.
btg_Unit == btg_Den * btg_Den

\* BacktestEngine.__init__ arguments (rupees, hundredths) and the
\* run_backtest keyword arguments (percent)
btg_initial_capital == 1000 * btg_Unit
btg_commission == 1
btg_slippage == 1
stop_loss_pct == 2
take_profit_pct == 4

\* Rows of data / signals: close in rupees, signal in {-1, 0, 1}
btg_Rows == { [close |-> c * btg_Unit, signal |-> g]
              : c \in {95, 100, 105}, g \in {-1, 0, 1} }

btg_NoRow == [close |-> 0, signal |-> 0]

btg_NoResults == [keys |-> {}, total_trades |-> 0]

\* keys of the dict _calculate_metrics returns when there is no trade
btg_zero_metrics_keys ==
    {"initial_capital", "final_capital", "total_return_pct", "cagr",
     "sharpe_ratio", "sortino_ratio", "max_drawdown_pct", "total_trades",
     "winning_trades", "losing_trades", "win_rate", "profit_factor",
     "avg_win", "avg_loss", "avg_trade_pnl", "avg_trade_return_pct",
     "avg_days_held", "max_consecutive_wins", "max_consecutive_losses"}

\* keys of the dict _calculate_metrics returns otherwise
btg_metrics_keys ==
    btg_zero_metrics_keys \cup {"total_return", "start_date", "end_date", "years"}

\* BacktestEngine._calculate_metrics: the keys and the trade count
btg_calculate_metrics(trades) ==
    IF Len(trades) = 0
    THEN [keys |-> btg_zero_metrics_keys, total_trades |-> 0]
    ELSE [keys |-> btg_metrics_keys, total_trades |-> Len(trades)]

\* the results[...] lookups of src/backtest_runner.py run_backtest
runner_printed_keys ==
    {"start_date", "end_date", "years", "initial_capital", "final_capital",
     "total_return", "total_return_pct", "cagr", "sharpe_ratio",
     "sortino_ratio", "max_drawdown_pct", "total_trades", "winning_trades",
     "losing_trades", "win_rate", "profit_factor", "avg_win", "avg_loss",
     "avg_trade_pnl", "avg_trade_return_pct", "avg_days_held",
     "max_consecutive_wins", "max_consecutive_losses"}

\* The equity point of a bar (lines 71-78), taken before exits and entries.
btg_total_equity(capital, position, current_price) ==
    IF position # None
    THEN capital + position.quantity * current_price
                 - position.quantity * position.entry_price
    ELSE capital

\* The exit decision of lines 86-106: <<should_exit, exit_reason, exit_price>>
btg_check_exit(position, current_price, current_signal) ==
    IF current_price <= position.stop_loss
    THEN <<TRUE, "stop_loss", position.stop_loss>>
    ELSE IF current_price >= position.take_profit
    THEN <<TRUE, "take_profit", position.take_profit>>
    ELSE IF current_signal = -1
    THEN <<TRUE, "signal",
           (current_price * (btg_Den - btg_slippage)) \div btg_Den>>
    ELSE <<FALSE, "", 0>>

\* The trade of lines 110-126 for an exit at exit_price.
btg_Trade(position, exit_price, exit_date, exit_reason) ==
    LET exit_price_adj == (exit_price * (btg_Den - btg_commission)) \div btg_Den
    IN  [entry_date |-> position.entry_date, exit_date |-> exit_date,
         entry_price |-> position.entry_price, exit_price |-> exit_price,
         quantity |-> position.quantity,
         pnl |-> (exit_price_adj - position.entry_price) * position.quantity,
         exit_reason |-> exit_reason]

\* The position opened by lines 131-153, or None when quantity is 0.
btg_Entry(capital, current_price, current_date) ==
    LET quantity == (capital * 95) \div (100 * current_price)
        entry_price == (current_price * (btg_Den + btg_slippage + btg_commission))
                           \div btg_Den
    IN  IF quantity > 0
        THEN [entry_date |-> current_date, entry_price |-> entry_price,
              quantity |-> quantity, entry_value |-> quantity * entry_price,
              stop_loss |-> (current_price * (100 - stop_loss_pct)) \div 100,
              take_profit |-> (current_price * (100 + take_profit_pct)) \div 100]
        ELSE None

btg_Idle ==
    /\ btg_pc = "idle" /\ btg_n = 0 /\ btg_i = 0 /\ btg_cur = btg_NoRow
    /\ btg_capital = 0 /\ btg_position = None /\ btg_trades = <<>>
    /\ btg_equity_curve = <<>>
    /\ btg_results = btg_NoResults /\ btg_outcome = "none"
    /\ btg_all_results = <<>>

\* Locals of run_backtest at lines 60-64.
btg_Init ==
    /\ btg_pc = "loop"
    /\ btg_n \in 1..MaxBars
    /\ btg_i = 0
    /\ btg_cur = btg_NoRow
    /\ btg_capital = btg_initial_capital
    /\ btg_position = None
    /\ btg_trades = <<>>
    /\ btg_equity_curve = <<btg_initial_capital>>
    /\ btg_results = btg_NoResults
    /\ btg_outcome = "none"
    /\ btg_all_results = <<>>

\* One iteration of the bar loop (lines 66-153).
btg_Bar ==
    /\ btg_pc = "loop"
    /\ btg_i < btg_n
    /\ \E row \in btg_Rows :
        LET current_price == row.close
            current_signal == row.signal
            ex == btg_check_exit(btg_position, current_price, current_signal)
            trade == btg_Trade(btg_position, ex[3], btg_i, ex[2])
            entry == btg_Entry(btg_capital, current_price, btg_i)
        IN  /\ btg_cur' = row
            /\ btg_equity_curve' = Append(btg_equity_curve,
                   btg_total_equity(btg_capital, btg_position, current_price))
            /\ IF btg_position # None
               THEN IF ex[1]
                    THEN /\ btg_capital' = btg_capital + trade.pnl
                              + btg_position.quantity * btg_position.entry_price
                         /\ btg_trades' = Append(btg_trades, trade)
                         /\ btg_position' = None
                    ELSE UNCHANGED <<btg_capital, btg_trades, btg_position>>
               ELSE IF current_signal = 1 /\ entry # None
                    THEN /\ btg_position' = entry
                         /\ btg_capital' = btg_capital - entry.entry_value
                         /\ UNCHANGED btg_trades
                    ELSE UNCHANGED <<btg_capital, btg_trades, btg_position>>
    /\ btg_i' = btg_i + 1
    /\ UNCHANGED <<btg_pc, btg_n, btg_results, btg_outcome, btg_all_results>>
    /\ UNCHANGED <<varsBT, varsSIM, varsBK, varsRK, varsMS, varsPOS, varsSG,
                 varsMIS, varsPF,
                   varsMT,
                   varsST,
                   varsTS,
                   varsLC,
                   varsLV>>

\* After the loop (lines 155-183): close any open position, store the results.
btg_Finish ==
    /\ btg_pc = "loop"
    /\ btg_i = btg_n
    /\ IF btg_position # None
       THEN LET final_price ==
                    (btg_cur.close * (btg_Den - btg_commission - btg_slippage))
                        \div btg_Den
                pnl == (final_price - btg_position.entry_price)
                           * btg_position.quantity
            IN  /\ btg_capital' = btg_capital + pnl
                       + btg_position.quantity * btg_position.entry_price
                /\ btg_trades' = Append(btg_trades,
                       [entry_date |-> btg_position.entry_date,
                        exit_date |-> btg_n - 1,
                        entry_price |-> btg_position.entry_price,
                        exit_price |-> final_price,
                        quantity |-> btg_position.quantity,
                        pnl |-> pnl, exit_reason |-> "end_of_data"])
       ELSE UNCHANGED <<btg_capital, btg_trades>>
    /\ btg_results' = btg_calculate_metrics(btg_trades')
    /\ btg_pc' = "done"
    /\ UNCHANGED <<btg_n, btg_i, btg_cur, btg_position, btg_equity_curve,
                   btg_outcome, btg_all_results>>
    /\ UNCHANGED <<varsBT, varsSIM, varsBK, varsRK, varsMS, varsPOS, varsSG,
                 varsMIS, varsPF,
                   varsMT,
                   varsST,
                   varsTS,
                   varsLC,
                   varsLV>>

\* src/backtest_runner.py run_backtest after engine.run_backtest returned
\* (lines 80-120): every results[...] it prints must be a key of the dict,
\* or the lookup raises KeyError
runner_run_backtest ==
    /\ btg_pc = "done"
    /\ btg_outcome' = IF runner_printed_keys \subseteq btg_results.keys
                      THEN "returned" ELSE "KeyError"
    /\ btg_pc' = "reported"
    /\ UNCHANGED <<btg_n, btg_i, btg_cur, btg_capital, btg_position, btg_trades,
                   btg_equity_curve, btg_results, btg_all_results>>
    /\ UNCHANGED <<varsBT, varsSIM, varsBK, varsRK, varsMS, varsPOS, varsSG,
                 varsMIS, varsPF,
                   varsMT,
                   varsST,
                   varsTS,
                   varsLC,
                   varsLV>>

\* run_multiple_backtests, the body of its loop for the symbol (lines 133-141):
\* an exception is logged and the symbol is skipped
run_multiple_backtests ==
    /\ btg_pc = "reported"
    /\ btg_all_results' = IF btg_outcome = "returned"
                          THEN Append(btg_all_results, btg_results)
                          ELSE btg_all_results
    /\ btg_pc' = "summarised"
    /\ UNCHANGED <<btg_n, btg_i, btg_cur, btg_capital, btg_position, btg_trades,
                   btg_equity_curve, btg_results, btg_outcome>>
    /\ UNCHANGED <<varsBT, varsSIM, varsBK, varsRK, varsMS, varsPOS, varsSG,
                 varsMIS, varsPF,
                   varsMT,
                   varsST,
                   varsTS,
                   varsLC,
                   varsLV>>


\* ======================================================================
\* Engine "sim": src/backtesting/backtest_engine.py with
\* src/utils/risk_manager.py and src/config/config.py
\* ======================================================================

\* Money unit of this engine: 1 rupee = sim_Unit units (COMMISSION is
\* COMMISSION / sim_Unit).
sim_Unit == 10 * 10 * 10

\* src/config/config.py
INITIAL_CAPITAL == 100000
COMMISSION == 1
MAX_PORTFOLIO_RISK == 2
STOP_LOSS_PERCENTAGE == 2
sim_MAX_POSITION_SIZE == 10000

\* Rows of data_with_signals: close in rupees, signal in {-1, 0, 1}
sim_Rows == { [close |-> c * sim_Unit, signal |-> g]
              : c \in {95, 100, 105}, g \in {-1, 0, 1} }

sim_NoRow == [close |-> 0, signal |-> 0]

\* Python round(x, 2) on an amount in units of 1/1000 rupee
Round2(x) == ((x + 5) \div 10) * 10

\* src/utils/risk_manager.py : RiskManager.calculate_stop_loss(is_long=True)
sim_calculate_stop_loss(entry_price) ==
    Round2((entry_price * (100 - STOP_LOSS_PERCENTAGE)) \div 100)

\* src/utils/risk_manager.py : RiskManager.calculate_position_size
sim_calculate_position_size(entry_price, stop_loss_price, account_value) ==
    LET risk_per_share == Abs(entry_price - stop_loss_price)
    IN  IF risk_per_share = 0 THEN 0
        ELSE Min((account_value * MAX_PORTFOLIO_RISK) \div (100 * risk_per_share),
                 (sim_MAX_POSITION_SIZE * sim_Unit) \div entry_price)

\* price * quantity * commission
sim_Commission(price, quantity) == (price * quantity * COMMISSION) \div sim_Unit

sim_Idle ==
    /\ sim_pc = "idle" /\ sim_n = 0 /\ sim_i = 0 /\ sim_cur = sim_NoRow
    /\ sim_equity = 0 /\ sim_position = None /\ sim_trades = <<>>
    /\ sim_equity_curve = <<>>

\* Locals of _simulate_trading at lines 74-77.
sim_Init ==
    /\ sim_pc = "loop"
    /\ sim_n \in 1..MaxBars
    /\ sim_i = 0
    /\ sim_cur = sim_NoRow
    /\ sim_equity = INITIAL_CAPITAL * sim_Unit
    /\ sim_position = None
    /\ sim_trades = <<>>
    /\ sim_equity_curve = <<>>

\* One iteration of the bar loop (lines 79-151).
sim_Bar ==
    /\ sim_pc = "loop"
    /\ sim_i < sim_n
    /\ \E row \in sim_Rows :
        LET current_price == row.close
            stop_loss == sim_calculate_stop_loss(current_price)
            quantity == sim_calculate_position_size(current_price, stop_loss,
                                                    sim_equity)
            should_exit == row.signal = -1 \/ current_price <= sim_position.stop_loss
            exit_reason == IF row.signal = -1 THEN "signal" ELSE "stop_loss"
            pnl == (current_price - sim_position.entry_price) * sim_position.quantity
                   - sim_Commission(current_price, sim_position.quantity)
            position1 ==
                IF row.signal = 1 /\ sim_position = None
                THEN IF quantity > 0
                     THEN [type |-> "long", entry_price |-> current_price,
                           quantity |-> quantity, entry_index |-> sim_i,
                           stop_loss |-> stop_loss]
                     ELSE None
                ELSE IF sim_position # None /\ should_exit THEN None
                ELSE sim_position
            equity1 ==
                IF row.signal = 1 /\ sim_position = None
                THEN IF quantity > 0
                     THEN sim_equity - sim_Commission(current_price, quantity)
                     ELSE sim_equity
                ELSE IF sim_position # None /\ should_exit THEN sim_equity + pnl
                ELSE sim_equity
            current_equity ==
                IF position1 # None
                THEN equity1 + (current_price - position1.entry_price)
                                   * position1.quantity
                ELSE equity1
        IN  /\ sim_cur' = row
            /\ sim_position' = position1
            /\ sim_equity' = equity1
            /\ sim_trades' =
                   IF ~(row.signal = 1 /\ sim_position = None)
                      /\ sim_position # None /\ should_exit
                   THEN Append(sim_trades,
                            [entry_date |-> sim_position.entry_index,
                             exit_date |-> sim_i,
                             entry_price |-> sim_position.entry_price,
                             exit_price |-> current_price,
                             quantity |-> sim_position.quantity,
                             pnl |-> pnl, exit_reason |-> exit_reason])
                   ELSE sim_trades
            /\ sim_equity_curve' = Append(sim_equity_curve, current_equity)
    /\ sim_i' = sim_i + 1
    /\ UNCHANGED <<sim_pc, sim_n>>
    /\ UNCHANGED <<varsBT, varsBTG, varsBK, varsRK, varsMS, varsPOS, varsSG,
                 varsMIS, varsPF,
                   varsMT,
                   varsST,
                   varsTS,
                   varsLC,
                   varsLV>>

\* After the loop (lines 153-182): close any open position at the last close.
sim_Finish ==
    /\ sim_pc = "loop"
    /\ sim_i = sim_n
    /\ IF sim_position # None
       THEN LET final_price == sim_cur.close
                pnl == (final_price - sim_position.entry_price)
                           * sim_position.quantity
                       - sim_Commission(final_price, sim_position.quantity)
            IN  /\ sim_equity' = sim_equity + pnl
                /\ sim_trades' = Append(sim_trades,
                       [entry_date |-> sim_position.entry_index,
                        exit_date |-> sim_n - 1,
                        entry_price |-> sim_position.entry_price,
                        exit_price |-> final_price,
                        quantity |-> sim_position.quantity,
                        pnl |-> pnl, exit_reason |-> "end_of_data"])
                /\ sim_equity_curve' =
                       [sim_equity_curve EXCEPT ![Len(sim_equity_curve)] =
                            sim_equity + pnl]
       ELSE UNCHANGED <<sim_equity, sim_trades, sim_equity_curve>>
    /\ sim_pc' = "done"
    /\ UNCHANGED <<sim_n, sim_i, sim_cur, sim_position>>
    /\ UNCHANGED <<varsBT, varsBTG, varsBK, varsRK, varsMS, varsPOS, varsSG,
                 varsMIS, varsPF,
                   varsMT,
                   varsST,
                   varsTS,
                   varsLC,
                   varsLV>>


\* ======================================================================
\* "bk": src/src/backtest/backtester.py with
\* src/src/strategy/rule_based_strategy.py and src/src/utils/risk_manager.py
\* ======================================================================

\* src/src/config.py : RiskConfig (rupees, percent, tenths)
bk_capital == 1000000
bk_risk_per_trade == 1
hard_stop_atr_multiplier == 25

\* Rows of the enriched frame: close and atr in rupees, signal in {-1, 0, 1}
bk_Rows == { [close |-> c, atr |-> a, signal |-> g]
             : c \in {100, 110}, a \in {0, 2}, g \in {-1, 0, 1} }

bk_NoRow == [close |-> 0, atr |-> 0, signal |-> 0, position |-> 0]

\* RuleBasedStrategy.generate_signals lines 84-85: the position column is the
\* signal column forward-filled over its zeros.
bk_position(signal, previous_position) ==
    IF signal # 0 THEN signal ELSE previous_position

\* PositionSizer.position_size for one row: floor(risk_amount / stop_distance),
\* a division by zero (inf) replaced by 0.
position_size(atr, capital) ==
    IF atr = 0 THEN 0
    ELSE Max(0, (capital * bk_risk_per_trade * 10)
                    \div (100 * hard_stop_atr_multiplier * atr))

Sign(x) == IF x > 0 THEN 1 ELSE IF x < 0 THEN -1 ELSE 0

bk_Idle ==
    /\ bk_pc = "idle" /\ bk_n = 0 /\ bk_i = 0 /\ bk_row = bk_NoRow
    /\ bk_current_trade = None /\ bk_trades = <<>>

\* Locals of _simulate_trades at lines 46-49.
bk_Init ==
    /\ bk_pc = "loop"
    /\ bk_n \in 1..MaxBars
    /\ bk_i = 0
    /\ bk_row = bk_NoRow
    /\ bk_current_trade = None
    /\ bk_trades = <<>>

\* One iteration of the row loop (lines 51-79).
bk_Bar ==
    /\ bk_pc = "loop"
    /\ bk_i < bk_n
    /\ \E r \in bk_Rows :
        LET position == bk_position(r.signal, bk_row.position)
            price == r.close
            qty == position_size(r.atr, bk_capital)
            opened == [type |-> "OPEN", entry_date |-> bk_i,
                       entry_price |-> price, direction |-> position,
                       size |-> qty]
        IN  /\ bk_row' = [close |-> r.close, atr |-> r.atr, signal |-> r.signal,
                          position |-> position]
            /\ IF bk_current_trade = None /\ position # 0
               THEN /\ bk_current_trade' = opened
                    /\ UNCHANGED bk_trades
               ELSE IF /\ bk_current_trade # None
                       /\ Sign(position) # Sign(bk_current_trade.direction)
               THEN /\ bk_trades' = Append(bk_trades,
                          [entry_date |-> bk_current_trade.entry_date,
                           entry_price |-> bk_current_trade.entry_price,
                           direction |-> bk_current_trade.direction,
                           size |-> bk_current_trade.size,
                           exit_date |-> bk_i, exit_price |-> price,
                           pnl |-> (price - bk_current_trade.entry_price)
                                       * bk_current_trade.direction
                                       * bk_current_trade.size])
                    /\ bk_current_trade' = IF position = 0 THEN None ELSE opened
               ELSE UNCHANGED <<bk_current_trade, bk_trades>>
    /\ bk_i' = bk_i + 1
    /\ UNCHANGED <<bk_pc, bk_n>>
    /\ UNCHANGED <<varsBT, varsBTG, varsSIM, varsRK, varsMS, varsPOS, varsSG,
                 varsMIS, varsPF,
                   varsMT,
                   varsST,
                   varsTS,
                   varsLC,
                   varsLV>>

\* Lines 81-82: the trade log is returned as it stands.
bk_Return ==
    /\ bk_pc = "loop"
    /\ bk_i = bk_n
    /\ bk_pc' = "done"
    /\ UNCHANGED <<bk_n, bk_i, bk_row, bk_current_trade, bk_trades>>
    /\ UNCHANGED <<varsBT, varsBTG, varsSIM, varsRK, varsMS, varsPOS, varsSG,
                 varsMIS, varsPF,
                   varsMT,
                   varsST,
                   varsTS,
                   varsLC,
                   varsLV>>


\* ======================================================================
\* "rk": RiskManager.calculate_position_size of src/src/risk/risk_manager.py
\* (risk_calculate_position_size above) and of
\* src/src/risk_management/risk_manager.py
\* ======================================================================

\* RiskManager.__init__ defaults of src/src/risk_management/risk_manager.py
\* (percent)
max_portfolio_risk == 2
rm_max_position_size == 10
risk_reward_ratio == 2

\* kelly_pct of the 'kelly' method in 1/100000:
\* 0.25 * (0.55 - (1 - 0.55) / risk_reward_ratio), capped to [0, max_position_size]
kelly_pct ==
    Max(0, Min((25 * (55 * risk_reward_ratio - 45) * 1000) \div (100 * risk_reward_ratio),
               rm_max_position_size * 1000))

\* src/src/risk_management/risk_manager.py : RiskManager.calculate_position_size
\* for ps_method in {"risk_based", "fixed", "kelly"}.  risk_per_share100 is
\* 100 * risk_per_share.
rm_calculate_position_size(ps_method, entry_price, stop_loss, portfolio_value) ==
    LET risk_per_share100 ==
            IF Abs(entry_price - stop_loss) = 0 THEN entry_price * 2
            ELSE 100 * Abs(entry_price - stop_loss)
        size1 ==
            IF ps_method = "risk_based"
            THEN (portfolio_value * max_portfolio_risk) \div risk_per_share100
            ELSE IF ps_method = "fixed"
            THEN (portfolio_value * rm_max_position_size) \div (100 * entry_price)
            ELSE (portfolio_value * kelly_pct) \div (100000 * entry_price)
        max_shares == (portfolio_value * rm_max_position_size) \div (100 * entry_price)
        size2 == Min(size1, max_shares)
    IN  IF size2 = 0 /\ portfolio_value >= entry_price THEN 1 ELSE size2

\* Arguments of a call: amounts in rupees, signal_strength in tenths
rk_Args ==
    { [capital |-> c, entry_price |-> e, stop_loss |-> e - d,
       signal_strength |-> g, ps_method |-> m]
      : c \in {40, 100, 1000}, e \in {5, 10, 50, 100}, d \in {0, 1, 2},
        g \in {0, 5, 10}, m \in {"risk_based", "fixed", "kelly"} }

rk_NoArgs == [capital |-> 0, entry_price |-> 0, stop_loss |-> 0,
              signal_strength |-> 0, ps_method |-> ""]

rk_Idle == rk_pc = "idle" /\ rk_args = rk_NoArgs /\ rk_quantity = 0

rk_Init == rk_pc = "call" /\ rk_args \in rk_Args /\ rk_quantity = 0

\* A call of src/src/risk/risk_manager.py calculate_position_size on a fresh
\* RiskManager(capital) (daily_pnl = 0).
rk_Risk ==
    /\ rk_pc = "call"
    /\ rk_quantity' = risk_calculate_position_size(rk_args.capital, 0,
                          rk_args.entry_price, rk_args.stop_loss,
                          rk_args.signal_strength)
    /\ rk_pc' = "risk"
    /\ UNCHANGED rk_args
    /\ UNCHANGED <<varsBT, varsBTG, varsSIM, varsBK, varsMS, varsPOS, varsSG,
                 varsMIS, varsPF,
                   varsMT,
                   varsST,
                   varsTS,
                   varsLC,
                   varsLV>>

\* A call of src/src/risk_management/risk_manager.py calculate_position_size
\* with portfolio_value = capital.
rk_RiskManagement ==
    /\ rk_pc = "call"
    /\ rk_quantity' = rm_calculate_position_size(rk_args.ps_method,
                          rk_args.entry_price, rk_args.stop_loss, rk_args.capital)
    /\ rk_pc' = "risk_management"
    /\ UNCHANGED rk_args
    /\ UNCHANGED <<varsBT, varsBTG, varsSIM, varsBK, varsMS, varsPOS, varsSG,
                 varsMIS, varsPF,
                   varsMT,
                   varsST,
                   varsTS,
                   varsLC,
                   varsLV>>


\* ======================================================================
\* "ms": src/src/strategies/momentum_strategy.py : MomentumStrategy.backtest
\* ======================================================================

\* Default arguments of backtest (rupees, percent, ratio)
ms_initial_capital == 100000
ms_risk_per_trade == 2
ms_risk_reward == 2

\* Rows after the 200-bar warm-up: close and atr in rupees, signal is the
\* column written by generate_signals (-1 sell, 0 hold, 1 buy).
ms_Rows == { [close |-> c, atr |-> a, signal |-> g]
             : c \in {9000, 10000, 12000}, a \in {500, 1500},
               g \in {-1, 0, 1} }

ms_NoRow == [close |-> 0, atr |-> 0, signal |-> 0]

\* MomentumStrategy.get_exit_signal: <<should_exit, reason>>
get_exit_signal(row, stop_loss, take_profit) ==
    IF row.close <= stop_loss THEN <<TRUE, "stop_loss">>
    ELSE IF row.close >= take_profit THEN <<TRUE, "take_profit">>
    ELSE IF row.signal = -1 THEN <<TRUE, "strategy_signal">>
    ELSE <<FALSE, "">>

\* MomentumStrategy.get_entry_signal
get_entry_signal(row) == row.signal = 1

\* Lines 244-247: int(capital * risk_per_trade / (2 * atr))
ms_quantity(capital, atr) ==
    (capital * ms_risk_per_trade) \div (100 * 2 * atr)

\* The trade appended at lines 221-230 and 270-279 (return_pct left out).
ms_Trade(position, exit_date, exit_price, reason) ==
    [entry_date |-> position.entry_date, exit_date |-> exit_date,
     entry_price |-> position.entry_price, exit_price |-> exit_price,
     quantity |-> position.quantity,
     pnl |-> (exit_price - position.entry_price) * position.quantity,
     exit_reason |-> reason]

ms_Idle ==
    /\ ms_pc = "idle" /\ ms_n = 0 /\ ms_i = 0 /\ ms_cur = ms_NoRow
    /\ ms_capital = 0 /\ ms_position = None /\ ms_trades = <<>>
    /\ ms_equity_curve = <<>>

\* Lines 203-207.  ms_n is the number of rows from index 200 on.
ms_Init ==
    /\ ms_pc = "loop"
    /\ ms_n \in 1..MaxBars
    /\ ms_i = 0
    /\ ms_cur = ms_NoRow
    /\ ms_capital = ms_initial_capital
    /\ ms_position = None
    /\ ms_trades = <<>>
    /\ ms_equity_curve = <<ms_initial_capital>>

\* One iteration of the loop at lines 209-264.
ms_Bar ==
    /\ ms_pc = "loop"
    /\ ms_i < ms_n
    /\ \E row \in ms_Rows :
        LET current_price == row.close
            stop_distance == 2 * row.atr
            quantity == ms_quantity(ms_capital, row.atr)
            entry_value == quantity * current_price
            exit == get_exit_signal(row, ms_position.stop_loss,
                                    ms_position.take_profit)
            trade == ms_Trade(ms_position, ms_i, current_price, exit[2])
            opened == [type |-> "LONG", entry_date |-> ms_i,
                       entry_price |-> current_price, quantity |-> quantity,
                       entry_value |-> entry_value,
                       stop_loss |-> current_price - stop_distance,
                       take_profit |-> current_price
                                         + stop_distance * ms_risk_reward]
        IN  /\ ms_cur' = row
            /\ IF ms_position # None
               THEN IF exit[1]
                    THEN /\ ms_capital' = ms_capital + trade.pnl
                         /\ ms_trades' = Append(ms_trades, trade)
                         /\ ms_position' = None
                    ELSE UNCHANGED <<ms_capital, ms_trades, ms_position>>
               ELSE IF /\ get_entry_signal(row)
                       /\ entry_value * 100 <= ms_capital * 95
                    THEN /\ ms_position' = opened
                         /\ UNCHANGED <<ms_capital, ms_trades>>
                    ELSE UNCHANGED <<ms_capital, ms_trades, ms_position>>
            /\ ms_equity_curve' = Append(ms_equity_curve,
                  ms_capital' + (IF ms_position' # None
                                 THEN (current_price - ms_position'.entry_price)
                                          * ms_position'.quantity
                                 ELSE 0))
    /\ ms_i' = ms_i + 1
    /\ UNCHANGED <<ms_pc, ms_n>>
    /\ UNCHANGED <<varsBT, varsBTG, varsSIM, varsBK, varsRK, varsPOS, varsSG,
                 varsMIS, varsPF,
                   varsMT,
                   varsST,
                   varsTS,
                   varsLC,
                   varsLV>>

\* Lines 266-279 and the returned trade log: a position still open is closed
\* at the last close with reason 'end_of_data'.
ms_Finish ==
    /\ ms_pc = "loop"
    /\ ms_i = ms_n
    /\ ms_pc' = "done"
    /\ IF ms_position # None
       THEN LET trade == ms_Trade(ms_position, ms_n - 1, ms_cur.close,
                                  "end_of_data")
            IN  /\ ms_capital' = ms_capital + trade.pnl
                /\ ms_trades' = Append(ms_trades, trade)
       ELSE UNCHANGED <<ms_capital, ms_trades>>
    /\ UNCHANGED <<ms_n, ms_i, ms_cur, ms_position, ms_equity_curve>>
    /\ UNCHANGED <<varsBT, varsBTG, varsSIM, varsBK, varsRK, varsPOS, varsSG,
                 varsMIS, varsPF,
                   varsMT,
                   varsST,
                   varsTS,
                   varsLC,
                   varsLV>>

\* ======================================================================
\* "pos": src/src/risk/risk_manager.py : add_position, update_position,
\* remove_position on one position of RiskManager.open_positions
\* ======================================================================

\* Prices are in hundredths of a rupee, so that the percentages are exact.
pos_Prices == {9000, 10000, 11000, 12000}

\* RiskManager.calculate_stop_loss
risk_calculate_stop_loss(entry_price, position_type) ==
    IF position_type = "LONG"
    THEN (entry_price * (100 - STOP_LOSS_PERCENT)) \div 100
    ELSE (entry_price * (100 + STOP_LOSS_PERCENT)) \div 100

\* RiskManager.calculate_trailing_stop
calculate_trailing_stop(entry_price, highest_price, position_type) ==
    IF position_type = "LONG"
    THEN (highest_price * (100 - TRAILING_STOP_PERCENT)) \div 100
    ELSE (highest_price * (100 + TRAILING_STOP_PERCENT)) \div 100

pos_Idle ==
    /\ pos_pc = "idle" /\ pos_calls = 0 /\ pos_position = None
    /\ pos_daily_pnl = 0

\* RiskManager.__init__: no open position, daily_pnl 0.
pos_Init ==
    /\ pos_pc = "new" /\ pos_calls = 0 /\ pos_position = None
    /\ pos_daily_pnl = 0

\* RiskManager.add_position
add_position ==
    /\ pos_pc = "new"
    /\ \E entry_price \in {10000, 11000}, position_type \in {"LONG", "SHORT"},
          quantity \in {1, 10} :
        pos_position' =
            [type |-> position_type, entry_price |-> entry_price,
             quantity |-> quantity,
             stop_loss |-> risk_calculate_stop_loss(entry_price, position_type),
             trailing_stop |-> entry_price, highest_price |-> entry_price,
             current_price |-> entry_price, unrealized_pnl |-> 0,
             should_exit |-> FALSE, exit_reason |-> ""]
    /\ pos_pc' = "open"
    /\ UNCHANGED <<pos_calls, pos_daily_pnl>>
    /\ UNCHANGED <<varsBT, varsBTG, varsSIM, varsBK, varsRK, varsMS, varsSG,
                 varsMIS, varsPF,
                   varsMT,
                   varsST,
                   varsTS,
                   varsLC,
                   varsLV>>

\* RiskManager.update_position.  highest_price = 0 stands for the falsy
\* argument (None, the default).
update_position ==
    /\ pos_pc = "open"
    /\ pos_calls < MaxUpdates
    /\ \E current_price \in pos_Prices, highest_price \in pos_Prices \cup {0} :
        LET p == pos_position
            unrealized_pnl ==
                IF p.type = "LONG"
                THEN (current_price - p.entry_price) * p.quantity
                ELSE (p.entry_price - current_price) * p.quantity
            highest == IF highest_price # 0
                       THEN Max(p.highest_price, highest_price)
                       ELSE p.highest_price
            trailing_stop ==
                IF highest_price # 0
                THEN calculate_trailing_stop(p.entry_price, highest, p.type)
                ELSE p.trailing_stop
            stop_hit == IF p.type = "LONG" THEN current_price <= p.stop_loss
                        ELSE current_price >= p.stop_loss
            trail_hit ==
                /\ highest_price # 0
                /\ IF p.type = "LONG" THEN current_price <= trailing_stop
                   ELSE current_price >= trailing_stop
        IN  pos_position' =
                [p EXCEPT !.current_price = current_price,
                          !.unrealized_pnl = unrealized_pnl,
                          !.highest_price = highest,
                          !.trailing_stop = trailing_stop,
                          !.exit_reason =
                              IF stop_hit THEN "Stop Loss"
                              ELSE IF trail_hit THEN "Trailing Stop Loss"
                              ELSE @,
                          !.should_exit = stop_hit \/ trail_hit \/ @]
    /\ pos_calls' = pos_calls + 1
    /\ UNCHANGED <<pos_pc, pos_daily_pnl>>
    /\ UNCHANGED <<varsBT, varsBTG, varsSIM, varsBK, varsRK, varsMS, varsSG,
                 varsMIS, varsPF,
                   varsMT,
                   varsST,
                   varsTS,
                   varsLC,
                   varsLV>>

\* RiskManager.remove_position
remove_position ==
    /\ pos_pc = "open"
    /\ pos_daily_pnl' = pos_daily_pnl + pos_position.unrealized_pnl
    /\ pos_position' = None
    /\ pos_pc' = "removed"
    /\ UNCHANGED pos_calls
    /\ UNCHANGED <<varsBT, varsBTG, varsSIM, varsBK, varsRK, varsMS, varsSG,
                 varsMIS, varsPF,
                   varsMT,
                   varsST,
                   varsTS,
                   varsLC,
                   varsLV>>

\* ======================================================================
\* Signal generation: MomentumStrategy.generate_signals
\* (src/src/strategies/momentum_strategy.py) and
\* RuleBasedStrategy.generate_signals (src/src/strategy/rule_based_strategy.py).
\* The vectorised column operations are applied row by row, in index order;
\* sg_row is the row before the current one (what shift(1) reads) and
\* sg_first is the frame index of the first row of the window looked at.
\* Prices are rupees, rsi is 0..100, macd_hist is the sign of
\* macd_line - macd_signal, signal_strength is in hundredths.
\* ======================================================================

\* a value pandas leaves undefined (NaN); every comparison with it is False
sg_NaN == 0 - 1000

rsi_period == 14
rsi_oversold == 30
rsi_overbought == 70
ema_period == 200
supertrend_period == 10
min_volume_average == 100000
rbs_rsi_low == 30
rbs_rsi_high == 70
rbs_shock_pct == 4
rbs_regime_window == 50

sg_Closes == {100, 102, 110}
sg_Ema == 101
sg_Rsi == {25, 50, 75}
sg_Volumes == {50000, 200000}
sg_Atr == {2, 4}
sg_AtrSma == 2

sg_NoRow == [close |-> sg_NaN, ema_200 |-> sg_NaN, macd_hist |-> sg_NaN,
             rsi |-> sg_NaN, supertrend_direction |-> sg_NaN,
             volume_sma_20 |-> sg_NaN, atr |-> sg_NaN, atr_sma |-> sg_NaN]

sg_NoOut == [signal |-> 0, position |-> 0, signal_strength |-> 0,
             long |-> FALSE, short |-> FALSE, macd_down |-> FALSE,
             rsi_short |-> FALSE, bullish_trend |-> FALSE]

\* calculate_macd: both EMAs start at the first close (adjust=False), so the
\* histogram is 0 on row 0 and has the sign of the price change on row 1
calculate_macd(idx, close, prev) ==
    IF idx = 0 THEN {0}
    ELSE IF idx = 1 /\ prev.close # sg_NaN
         THEN {IF close > prev.close THEN 1
               ELSE IF close < prev.close THEN 0 - 1 ELSE 0}
         ELSE {0 - 1, 0, 1}

\* calculate_rsi: rolling(window=period) is undefined on the first period-1 rows
calculate_rsi(idx) == IF idx >= rsi_period - 1 THEN sg_Rsi ELSE {sg_NaN}

\* calculate_ema: ewm(adjust=False) equals the close on row 0
calculate_ema(idx, close) == IF idx = 0 THEN close ELSE sg_Ema

\* calculate_supertrend: direction is filled for i in range(period, len(df))
calculate_supertrend(idx) ==
    IF idx >= supertrend_period THEN {1, 0 - 1} ELSE {sg_NaN}

\* rows of the frame TechnicalIndicators.add_all_indicators returns
ms_IndicatorRows(idx, prev) ==
    UNION { { [close |-> c, ema_200 |-> calculate_ema(idx, c), macd_hist |-> m,
               rsi |-> r, supertrend_direction |-> d,
               volume_sma_20 |-> sg_NaN, atr |-> sg_NaN, atr_sma |-> sg_NaN] :
                m \in calculate_macd(idx, c, prev), r \in calculate_rsi(idx),
                d \in calculate_supertrend(idx) } : c \in sg_Closes }

\* rows of the frame compute_indicators returns: dropna() leaves no undefined
\* indicator; the rolling(50) mean of atr is taken on that frame afterwards
compute_indicators(idx) ==
    { [close |-> c, ema_200 |-> sg_Ema, macd_hist |-> m, rsi |-> r,
       supertrend_direction |-> d, volume_sma_20 |-> v, atr |-> a,
       atr_sma |-> IF idx >= rbs_regime_window - 1 THEN sg_AtrSma ELSE sg_NaN] :
        c \in sg_Closes, m \in {0 - 1, 0, 1}, r \in sg_Rsi, d \in {1, 0 - 1},
        v \in sg_Volumes, a \in sg_Atr }

\* MomentumStrategy.generate_signals: the macd_crossover column
ms_macd_crossover(row, prev) ==
    IF /\ row.macd_hist < 0
       /\ prev.macd_hist # sg_NaN /\ prev.macd_hist >= 0
    THEN 0 - 1
    ELSE IF /\ row.macd_hist > 0
            /\ prev.macd_hist # sg_NaN /\ prev.macd_hist <= 0
         THEN 1
         ELSE 0

ms_buy_condition(row, prev) ==
    /\ row.rsi # sg_NaN /\ row.rsi < rsi_oversold
    /\ ms_macd_crossover(row, prev) = 1
    /\ row.close > row.ema_200
    /\ row.supertrend_direction = 1

ms_sell_condition_rsi_below(row, prev) ==
    \/ row.rsi # sg_NaN /\ row.rsi < rsi_overbought
    \/ ms_macd_crossover(row, prev) = 0 - 1

ms_sell_condition(row, prev) ==
    \/ row.rsi # sg_NaN /\ row.rsi > rsi_overbought
    \/ ms_macd_crossover(row, prev) = 0 - 1

\* signal = 0, then 1 where buy_condition, then -1 where sell_condition
ms_generate_signals(row, prev) ==
    [signal |-> IF ms_sell_condition(row, prev) THEN 0 - 1
                ELSE IF ms_buy_condition(row, prev) THEN 1 ELSE 0,
     position |-> 0, signal_strength |-> 0,
     long |-> ms_buy_condition(row, prev),
     short |-> ms_sell_condition(row, prev),
     macd_down |-> ms_macd_crossover(row, prev) = 0 - 1,
     rsi_short |-> row.rsi # sg_NaN /\ row.rsi > rsi_overbought,
     bullish_trend |-> row.close > row.ema_200 /\ row.supertrend_direction = 1]

\* RuleBasedStrategy._macd_cross
rbs_macd_cross(row, prev) ==
    [bullish |-> /\ row.macd_hist > 0
                 /\ prev.macd_hist # sg_NaN /\ prev.macd_hist <= 0,
     bearish |-> /\ row.macd_hist < 0
                 /\ prev.macd_hist # sg_NaN /\ prev.macd_hist >= 0]

\* RuleBasedStrategy._rsi_extremes
rbs_rsi_extremes(row, prev) ==
    [long_ready |-> /\ prev.rsi # sg_NaN /\ prev.rsi < rbs_rsi_low
                    /\ row.rsi >= rbs_rsi_low,
     short_ready |-> /\ prev.rsi # sg_NaN /\ prev.rsi > rbs_rsi_high
                     /\ row.rsi <= rbs_rsi_high]

\* RuleBasedStrategy._shock_filter: abs(pct_change) < 0.04
rbs_shock_filter(row, prev) ==
    /\ prev.close # sg_NaN
    /\ 100 * Abs(row.close - prev.close) < rbs_shock_pct * prev.close

\* RuleBasedStrategy._volatility_regime: atr > 1.5 * rolling mean of atr
rbs_volatility_regime(row) ==
    IF row.atr_sma # sg_NaN /\ 2 * row.atr > 3 * row.atr_sma
    THEN "high" ELSE "normal"

rbs_bullish_trend(row) ==
    row.close > row.ema_200 /\ row.supertrend_direction > 0

rbs_bearish_trend(row) ==
    row.close < row.ema_200 /\ row.supertrend_direction < 0

rbs_liquidity_filter(row) == row.volume_sma_20 > min_volume_average

rbs_long_signal(row, prev) ==
    /\ rbs_bullish_trend(row)
    /\ rbs_macd_cross(row, prev).bullish
    /\ rbs_rsi_extremes(row, prev).long_ready
    /\ rbs_liquidity_filter(row)
    /\ rbs_shock_filter(row, prev)

rbs_short_signal(row, prev) ==
    /\ rbs_bearish_trend(row)
    /\ rbs_macd_cross(row, prev).bearish
    /\ rbs_rsi_extremes(row, prev).short_ready
    /\ rbs_liquidity_filter(row)
    /\ rbs_shock_filter(row, prev)

\* signal = 0, 1 where long_signal, then -1 where short_signal
rbs_signal(row, prev) ==
    IF rbs_short_signal(row, prev) THEN 0 - 1
    ELSE IF rbs_long_signal(row, prev) THEN 1 ELSE 0

\* position = signal.replace(0, nan).ffill().fillna(0).clip(-1, 1)
rbs_position(signal, previous_position) ==
    IF signal # 0 THEN signal ELSE previous_position

\* signal_strength = long * 1.0 + short * (-1.0) + (regime == "normal") * 0.25
rbs_signal_strength(row, prev) ==
    (IF rbs_long_signal(row, prev) THEN 100 ELSE 0)
    - (IF rbs_short_signal(row, prev) THEN 100 ELSE 0)
    + (IF rbs_volatility_regime(row) = "normal" THEN 25 ELSE 0)

rbs_generate_signals(row, prev, previous_position) ==
    [signal |-> rbs_signal(row, prev),
     position |-> rbs_position(rbs_signal(row, prev), previous_position),
     signal_strength |-> rbs_signal_strength(row, prev),
     long |-> rbs_long_signal(row, prev),
     short |-> rbs_short_signal(row, prev),
     macd_down |-> rbs_macd_cross(row, prev).bearish,
     rsi_short |-> rbs_rsi_extremes(row, prev).short_ready,
     bullish_trend |-> rbs_bullish_trend(row)]

sg_Idle ==
    /\ sg_pc = "idle"
    /\ sg_strategy = "none"
    /\ sg_first = 0
    /\ sg_n = 0
    /\ sg_i = 0
    /\ sg_row = sg_NoRow
    /\ sg_out = sg_NoOut

\* the frame handed to generate_signals, seen from row sg_first on: the row
\* before the window is any row the indicator functions can produce there
sg_Init ==
    /\ sg_pc = "loop"
    /\ sg_n \in 1..MaxBars
    /\ sg_i = 0
    /\ sg_out = sg_NoOut
    /\ \/ /\ sg_strategy = "momentum"
          /\ \/ sg_first = 0 /\ sg_row = sg_NoRow
             \/ /\ sg_first = ema_period
                /\ sg_row \in ms_IndicatorRows(ema_period - 1, sg_NoRow)
       \/ /\ sg_strategy = "rule_based"
          /\ \/ sg_first = 0 /\ sg_row = sg_NoRow
             \/ /\ sg_first = rbs_regime_window
                /\ sg_row \in compute_indicators(rbs_regime_window - 1)

\* MomentumStrategy.generate_signals, one row
momentum_generate_signals ==
    /\ sg_pc = "loop"
    /\ sg_strategy = "momentum"
    /\ sg_i < sg_n
    /\ \E row \in ms_IndicatorRows(sg_first + sg_i, sg_row) :
        /\ sg_out' = ms_generate_signals(row, sg_row)
        /\ sg_row' = row
    /\ sg_i' = sg_i + 1
    /\ UNCHANGED <<sg_pc, sg_strategy, sg_first, sg_n>>
    /\ UNCHANGED <<varsBT, varsBTG, varsSIM, varsBK, varsRK, varsMS, varsPOS,
                 varsMIS, varsPF,
                   varsMT,
                   varsST,
                   varsTS,
                   varsLC,
                   varsLV>>

\* RuleBasedStrategy.generate_signals, one row
rule_based_generate_signals ==
    /\ sg_pc = "loop"
    /\ sg_strategy = "rule_based"
    /\ sg_i < sg_n
    /\ \E row \in compute_indicators(sg_first + sg_i) :
        /\ sg_out' = rbs_generate_signals(row, sg_row, sg_out.position)
        /\ sg_row' = row
    /\ sg_i' = sg_i + 1
    /\ UNCHANGED <<sg_pc, sg_strategy, sg_first, sg_n>>
    /\ UNCHANGED <<varsBT, varsBTG, varsSIM, varsBK, varsRK, varsMS, varsPOS,
                 varsMIS, varsPF,
                   varsMT,
                   varsST,
                   varsTS,
                   varsLC,
                   varsLV>>

\* generate_signals returns the frame
sg_Return ==
    /\ sg_pc = "loop"
    /\ sg_i = sg_n
    /\ sg_pc' = "done"
    /\ UNCHANGED <<sg_strategy, sg_first, sg_n, sg_i, sg_row, sg_out>>
    /\ UNCHANGED <<varsBT, varsBTG, varsSIM, varsBK, varsRK, varsMS, varsPOS,
                 varsMIS, varsPF,
                   varsMT,
                   varsST,
                   varsTS,
                   varsLC,
                   varsLV>>

\* ======================================================================
\* MultiIndicatorStrategy.should_enter_trade / should_exit_trade
\* (src/strategies/multi_indicator_strategy.py).  strength is in hundredths.
\* ======================================================================

mis_strength_threshold == 50

\* get_current_signal returned None
mis_NoSignal == [signal |-> "NONE", strength |-> 0]

\* the dicts get_current_signal returns
mis_Signals ==
    { [signal |-> t, strength |-> g] :
        t \in {"BUY", "SELL"}, g \in {25, 49, 50, 75} }

\* current_position: None, or a dict with is_long
mis_Positions == {"none", "long", "short"}

\* should_enter_trade: <<returned value, self.last_signal afterwards>>
should_enter_trade_result(signal, current_position, last_signal) ==
    IF signal = mis_NoSignal THEN <<FALSE, last_signal>>
    ELSE IF current_position # "none" THEN <<FALSE, last_signal>>
    ELSE IF signal.strength < mis_strength_threshold THEN <<FALSE, last_signal>>
    ELSE IF last_signal # mis_NoSignal /\ last_signal.signal = signal.signal
         THEN <<FALSE, last_signal>>
    ELSE <<TRUE, signal>>

\* should_exit_trade: the returned value
should_exit_trade_result(signal, current_position) ==
    IF current_position = "none" THEN FALSE
    ELSE signal # mis_NoSignal /\ signal.signal = "SELL"
         /\ current_position = "long"

mis_Idle ==
    /\ mis_calls = 0 /\ mis_last_signal = mis_NoSignal /\ mis_op = "idle"
    /\ mis_signal = mis_NoSignal /\ mis_current_position = "none"
    /\ mis_result = FALSE

\* MultiIndicatorStrategy.__init__
mis_Init ==
    /\ mis_calls = 0
    /\ mis_last_signal = mis_NoSignal
    /\ mis_op = "init"
    /\ mis_signal = mis_NoSignal
    /\ mis_current_position = "none"
    /\ mis_result = FALSE

should_enter_trade ==
    /\ mis_op # "idle"
    /\ mis_calls < MaxCalls
    /\ \E signal \in mis_Signals \cup {mis_NoSignal},
          current_position \in mis_Positions :
        LET r == should_enter_trade_result(signal, current_position,
                                           mis_last_signal)
        IN  /\ mis_signal' = signal
            /\ mis_current_position' = current_position
            /\ mis_result' = r[1]
            /\ mis_last_signal' = r[2]
    /\ mis_op' = "enter"
    /\ mis_calls' = mis_calls + 1
    /\ UNCHANGED <<varsBT, varsBTG, varsSIM, varsBK, varsRK, varsMS, varsPOS,
                   varsSG, varsPF,
                   varsMT,
                   varsST,
                   varsTS,
                   varsLC,
                   varsLV>>

should_exit_trade ==
    /\ mis_op # "idle"
    /\ mis_calls < MaxCalls
    /\ \E signal \in mis_Signals \cup {mis_NoSignal},
          current_position \in mis_Positions :
        /\ mis_signal' = signal
        /\ mis_current_position' = current_position
        /\ mis_result' = should_exit_trade_result(signal, current_position)
    /\ mis_op' = "exit"
    /\ mis_calls' = mis_calls + 1
    /\ UNCHANGED mis_last_signal
    /\ UNCHANGED <<varsBT, varsBTG, varsSIM, varsBK, varsRK, varsMS, varsPOS,
                   varsSG, varsPF,
                   varsMT,
                   varsST,
                   varsTS,
                   varsLC,
                   varsLV>>

\* ======================================================================
\* The symbol loops of run_portfolio_backtest
\* (src/trading_bot/backtesting/engine.py) and of Backtester.run
\* (src/src/backtest/backtester.py).  pf_inputs[k] is what the k-th symbol
\* brings: for the portfolio a price file that is missing, lacks a column or
\* is good; for Backtester.run a frame.
\* ======================================================================

pf_Files == {"missing", "malformed", "ok"}

pf_Frames == {"frame"}

\* backtest_single: _load_price_file raises KeyError on a file without one of
\* the Open/High/Low/Close/Volume columns
backtest_single(file) == IF file = "ok" THEN "metrics" ELSE "raised"

\* columns of signals.data that Backtester reads; generate_signals adds none
\* of the return columns
bk_signal_columns == {"close", "atr", "signal", "position"}

\* the columns _simulate_trades assigns on the frame it is handed
simulate_trades_columns(df) ==
    df \cup {"daily_return", "strategy_return", "cum_return",
             "benchmark_return", "atr_stop", "trailing_stop"}

\* Backtester.run, one symbol: _simulate_trades is handed enriched.copy() and
\* run then reads cum_return and strategy_return from enriched itself
Backtester_symbol(frame) ==
    LET enriched == bk_signal_columns
        simulated == simulate_trades_columns(enriched)
    IN  IF {"cum_return", "strategy_return"} \subseteq enriched
        THEN "ok" ELSE "raised"

pf_Idle ==
    /\ pf_pc = "idle" /\ pf_engine = "none" /\ pf_inputs = <<>> /\ pf_i = 0
    /\ pf_results = {}

pf_Init ==
    /\ pf_pc = "loop"
    /\ \/ /\ pf_engine = "portfolio"
          /\ \E n \in 1..MaxSymbols : pf_inputs \in [1..n -> pf_Files]
       \/ /\ pf_engine = "backtester"
          /\ \E n \in 0..MaxSymbols : pf_inputs \in [1..n -> pf_Frames]
    /\ pf_i = 0
    /\ pf_results = {}

\* run_portfolio_backtest, one pass of "for ticker in tickers"
run_portfolio_backtest_ticker ==
    /\ pf_pc = "loop"
    /\ pf_engine = "portfolio"
    /\ pf_i < Len(pf_inputs)
    /\ pf_i' = pf_i + 1
    /\ LET file == pf_inputs[pf_i + 1]
       IN  IF file = "missing"
           THEN UNCHANGED <<pf_pc, pf_results>>
           ELSE IF backtest_single(file) = "raised"
                THEN pf_pc' = "raised" /\ UNCHANGED pf_results
                ELSE /\ pf_results' = pf_results \cup {pf_i + 1}
                     /\ UNCHANGED pf_pc
    /\ UNCHANGED <<pf_engine, pf_inputs>>
    /\ UNCHANGED <<varsBT, varsBTG, varsSIM, varsBK, varsRK, varsMS, varsPOS,
                   varsSG, varsMIS,
                   varsMT,
                   varsST,
                   varsTS,
                   varsLC,
                   varsLV>>

\* Backtester.run, one pass of "for symbol, df in data.items()"
Backtester_run_symbol ==
    /\ pf_pc = "loop"
    /\ pf_engine = "backtester"
    /\ pf_i < Len(pf_inputs)
    /\ pf_i' = pf_i + 1
    /\ IF Backtester_symbol(pf_inputs[pf_i + 1]) = "raised"
       THEN pf_pc' = "raised" /\ UNCHANGED pf_results
       ELSE /\ pf_results' = pf_results \cup {pf_i + 1}
            /\ UNCHANGED pf_pc
    /\ UNCHANGED <<pf_engine, pf_inputs>>
    /\ UNCHANGED <<varsBT, varsBTG, varsSIM, varsBK, varsRK, varsMS, varsPOS,
                   varsSG, varsMIS,
                   varsMT,
                   varsST,
                   varsTS,
                   varsLC,
                   varsLV>>

\* after the loop: run_portfolio_backtest raises RuntimeError on an empty
\* summary, Backtester.run returns the reports
pf_Return ==
    /\ pf_pc = "loop"
    /\ pf_i = Len(pf_inputs)
    /\ pf_pc' = IF pf_engine = "portfolio" /\ pf_results = {}
                THEN "raised" ELSE "returned"
    /\ UNCHANGED <<pf_engine, pf_inputs, pf_i, pf_results>>
    /\ UNCHANGED <<varsBT, varsBTG, varsSIM, varsBK, varsRK, varsMS, varsPOS,
                   varsSG, varsMIS,
                   varsMT,
                   varsST,
                   varsTS,
                   varsLC,
                   varsLV>>

\* ======================================================================
\* BacktestEngine._calculate_metrics of src/src/backtest/backtest_engine.py
\* ("bt") and of src/src/backtesting/backtest_engine.py ("btg"), applied to
\* a trade log given by the pnl of its trades, in rupees and in trade order.
\* Ratios are kept as fractions; cagr is in hundredths of a percent, rounded
\* down, with 1.0 = mt_One in the fixed-point power.
\* ======================================================================

mt_One == 10000

mt_initial_capital == 100000

\* pnl of a trade: a loss, a trade that breaks even, a gain
mt_Pnls == {0 - 10, 0, 10}

mt_FinalCapitals == {50000, 100000, 200000}

\* (end_date - start_date).days: whole multiples of four years, so that
\* days / 365.25 is a whole number
mt_DaySpans == {0 - 1461, 0, 1461, 2922}

\* years = (end_date - start_date).days / 365.25
mt_years(days) == (4 * days) \div 1461

RECURSIVE mt_pow(_, _)
\* x ** n in fixed point, cut off above 5.0
mt_pow(x, n) ==
    IF n = 0 THEN mt_One
    ELSE LET p == mt_pow(x, n - 1)
         IN  IF p >= 5 * mt_One THEN 5 * mt_One
             ELSE Min(5 * mt_One, (p * x) \div mt_One)

RECURSIVE mt_root(_, _, _, _)
\* the largest x in lo..hi-1 with x ** n <= target
mt_root(target, n, lo, hi) ==
    IF hi - lo <= 1 THEN lo
    ELSE LET mid == (lo + hi) \div 2
         IN  IF mt_pow(mid, n) <= target
             THEN mt_root(target, n, mid, hi)
             ELSE mt_root(target, n, lo, mid)

\* cagr reported as the total return
calculate_cagr_total_return(final_capital, initial_capital, years) ==
    IF years > 0
    THEN (final_capital * mt_One) \div initial_capital - mt_One
    ELSE 0

\* (((final_capital / initial_capital) ** (1 / years)) - 1) * 100 if years > 0
\* else 0
calculate_cagr(final_capital, initial_capital, years) ==
    IF years > 0
    THEN mt_root((final_capital * mt_One) \div initial_capital, years,
                 0, 3 * mt_One) - mt_One
    ELSE 0

RECURSIVE mt_count(_, _)
\* len(trades_df[trades_df['pnl'] > 0]) for sign 1, [... < 0] for sign -1
mt_count(pnls, sign) ==
    IF pnls = <<>> THEN 0
    ELSE (IF Head(pnls) * sign > 0 THEN 1 ELSE 0) + mt_count(Tail(pnls), sign)

RECURSIVE mt_sum(_, _)
\* trades_df[...]['pnl'].sum() over the winning (1) or losing (-1) trades
mt_sum(pnls, sign) ==
    IF pnls = <<>> THEN 0
    ELSE (IF Head(pnls) * sign > 0 THEN Head(pnls) ELSE 0)
         + mt_sum(Tail(pnls), sign)

\* a float: not-a-number, or the fraction num / den
mt_NaN == [nan |-> TRUE, num |-> 0, den |-> 1]

mt_Float(num, den) == [nan |-> FALSE, num |-> num, den |-> den]

\* Series.mean() of the selected pnl values: NaN for an empty selection
mt_mean(pnls, sign) ==
    IF mt_count(pnls, sign) = 0 THEN mt_NaN
    ELSE mt_Float(mt_sum(pnls, sign), mt_count(pnls, sign))

\* bt lines 263-265: avg_win, avg_loss and profit_factor
bt_profit_factor(pnls) ==
    LET total_trades == Len(pnls)
        winning_trades == mt_count(pnls, 1)
        avg_win == IF winning_trades > 0 THEN mt_mean(pnls, 1)
                   ELSE mt_Float(0, 1)
        avg_loss == IF total_trades > winning_trades THEN mt_mean(pnls, 0 - 1)
                    ELSE mt_Float(0, 1)
    IN  \* NaN != 0 is True, and a quotient by NaN is NaN
        IF avg_loss.nan \/ avg_win.nan THEN mt_NaN
        ELSE IF avg_loss.num # 0
             THEN mt_Float(Abs(avg_win.num * avg_loss.den),
                           Abs(avg_loss.num * avg_win.den))
             ELSE mt_Float(0, 1)

RECURSIVE btg_consecutive(_, _, _, _, _)
\* btg lines 274-287: the scan for max_consecutive_wins / _losses
btg_consecutive(pnls, wins, losses, max_wins, max_losses) ==
    IF pnls = <<>> THEN <<max_wins, max_losses>>
    ELSE IF Head(pnls) > 0
         THEN btg_consecutive(Tail(pnls), wins + 1, 0,
                              Max(max_wins, wins + 1), max_losses)
         ELSE btg_consecutive(Tail(pnls), 0, losses + 1,
                              max_wins, Max(max_losses, losses + 1))

mt_NoResults ==
    [total_trades |-> 0, winning_trades |-> 0, losing_trades |-> 0,
     cagr |-> 0, profit_factor |-> mt_Float(0, 1),
     max_consecutive_wins |-> 0, max_consecutive_losses |-> 0]

\* bt _calculate_metrics (lines 200-284)
bt_metrics(pnls, final_capital, days) ==
    IF pnls = <<>> THEN mt_NoResults
    ELSE [total_trades |-> Len(pnls),
          winning_trades |-> mt_count(pnls, 1),
          losing_trades |-> Len(pnls) - mt_count(pnls, 1),
          cagr |-> calculate_cagr(final_capital, mt_initial_capital,
                                  mt_years(days)),
          profit_factor |-> bt_profit_factor(pnls),
          max_consecutive_wins |-> 0, max_consecutive_losses |-> 0]

\* btg _calculate_metrics (lines 185-313); profit_factor is not modelled
btg_metrics(pnls, final_capital, days) ==
    IF Len(pnls) = 0 THEN mt_NoResults
    ELSE [total_trades |-> Len(pnls),
          winning_trades |-> mt_count(pnls, 1),
          losing_trades |-> mt_count(pnls, 0 - 1),
          cagr |-> calculate_cagr(final_capital, mt_initial_capital,
                                  mt_years(days)),
          profit_factor |-> mt_Float(0, 1),
          max_consecutive_wins |-> btg_consecutive(pnls, 0, 0, 0, 0)[1],
          max_consecutive_losses |-> btg_consecutive(pnls, 0, 0, 0, 0)[2]]

mt_Idle ==
    /\ mt_pc = "idle" /\ mt_engine = "none" /\ mt_pnls = <<>>
    /\ mt_final_capital = 0 /\ mt_days = 0 /\ mt_results = mt_NoResults

\* the arguments and the trade log _calculate_metrics is called with
mt_Init ==
    /\ mt_pc = "call"
    /\ mt_engine \in {"bt", "btg"}
    /\ \E n \in 0..MaxTrades : mt_pnls \in [1..n -> mt_Pnls]
    /\ mt_final_capital \in mt_FinalCapitals
    /\ mt_days \in mt_DaySpans
    /\ mt_results = mt_NoResults

bt_calculate_metrics_call ==
    /\ mt_pc = "call"
    /\ mt_engine = "bt"
    /\ mt_results' = bt_metrics(mt_pnls, mt_final_capital, mt_days)
    /\ mt_pc' = "returned"
    /\ UNCHANGED <<mt_engine, mt_pnls, mt_final_capital, mt_days>>
    /\ UNCHANGED <<varsBT, varsBTG, varsSIM, varsBK, varsRK, varsMS, varsPOS,
                   varsSG, varsMIS, varsPF,
                   varsST,
                   varsTS,
                   varsLC,
                   varsLV>>

btg_calculate_metrics_call ==
    /\ mt_pc = "call"
    /\ mt_engine = "btg"
    /\ mt_results' = btg_metrics(mt_pnls, mt_final_capital, mt_days)
    /\ mt_pc' = "returned"
    /\ UNCHANGED <<mt_engine, mt_pnls, mt_final_capital, mt_days>>
    /\ UNCHANGED <<varsBT, varsBTG, varsSIM, varsBK, varsRK, varsMS, varsPOS,
                   varsSG, varsMIS, varsPF,
                   varsST,
                   varsTS,
                   varsLC,
                   varsLV>>

\* ----------------------------------------------------------------------
\* src/src/indicators/technical_indicators.py :
\* TechnicalIndicators.calculate_supertrend, bands and direction
\* ----------------------------------------------------------------------

\* the period and multiplier arguments of the call
st_period == 2

st_multiplier == 3

\* a cell of a pd.Series(index=df.index, dtype=float) that was never assigned
st_NaN == 0 - 100000

\* rows of df: a quiet bar, a rally, a sell-off, a quiet bar after a gap up
st_Bars ==
    { [high |-> 102, low |-> 100, close |-> 102],
      [high |-> 120, low |-> 110, close |-> 118],
      [high |-> 90, low |-> 80, close |-> 82],
      [high |-> 104, low |-> 102, close |-> 102] }

\* true_range = max(high - low, |high - close.shift()|, |low - close.shift()|),
\* the shifted terms being NaN (skipped by max) on the first row
supertrend_true_range(df, k) ==
    IF k = 1 THEN df[k].high - df[k].low
    ELSE Max(df[k].high - df[k].low,
             Max(Abs(df[k].high - df[k - 1].close),
                 Abs(df[k].low - df[k - 1].close)))

RECURSIVE st_sum_true_range(_, _, _)
st_sum_true_range(df, k, n) ==
    IF n = 0 THEN 0
    ELSE supertrend_true_range(df, k) + st_sum_true_range(df, k - 1, n - 1)

\* atr = true_range.rolling(period).mean()
supertrend_atr(df, k) ==
    IF k < st_period THEN st_NaN
    ELSE st_sum_true_range(df, k, st_period) \div st_period

\* hl2 + multiplier * atr and hl2 - multiplier * atr
supertrend_basic_upper(df, k) ==
    (df[k].high + df[k].low) \div 2 + st_multiplier * supertrend_atr(df, k)

supertrend_basic_lower(df, k) ==
    (df[k].high + df[k].low) \div 2 - st_multiplier * supertrend_atr(df, k)

\* the upper band follows the basic band on every bar
supertrend_final_upper_basic(basic_upper, final_upper_prev, close_prev) ==
    basic_upper

\* lines 129-133
supertrend_final_upper(basic_upper, final_upper_prev, close_prev) ==
    IF basic_upper < final_upper_prev \/ close_prev > final_upper_prev
    THEN basic_upper
    ELSE final_upper_prev

\* lines 135-139
supertrend_final_lower(basic_lower, final_lower_prev, close_prev) ==
    IF basic_lower > final_lower_prev \/ close_prev < final_lower_prev
    THEN basic_lower
    ELSE final_lower_prev

\* lines 146-166: the direction of bar k (row k - 1 of the frame)
supertrend_direction(df, k, final_upper, final_lower, direction_prev) ==
    IF k - 1 = st_period
    THEN IF df[k].close <= final_upper THEN 0 - 1 ELSE 1
    ELSE IF direction_prev = 1
         THEN IF df[k].close <= final_lower THEN 0 - 1 ELSE 1
         ELSE IF df[k].close >= final_upper THEN 1 ELSE 0 - 1

st_Idle ==
    /\ st_pc = "idle" /\ st_df = <<>> /\ st_i = 0
    /\ st_final_upper = <<>> /\ st_final_lower = <<>> /\ st_direction = <<>>

\* a call on a frame with more than period rows; the three series start
\* unassigned and i at the first value of range(period, len(df))
st_Init ==
    /\ st_pc = "bands"
    /\ \E n \in (st_period + 1)..MaxRows : st_df \in [1..n -> st_Bars]
    /\ st_i = st_period
    /\ st_final_upper = [k \in 1..Len(st_df) |-> st_NaN]
    /\ st_final_lower = [k \in 1..Len(st_df) |-> st_NaN]
    /\ st_direction = [k \in 1..Len(st_df) |-> st_NaN]

\* one iteration of the loop of lines 124-139 (row i is element i + 1)
supertrend_bands_step ==
    /\ st_pc = "bands"
    /\ st_i < Len(st_df)
    /\ LET k == st_i + 1
       IN  IF st_i = st_period
           THEN /\ st_final_upper' = [st_final_upper EXCEPT ![k] = supertrend_basic_upper(st_df, k)]
                /\ st_final_lower' = [st_final_lower EXCEPT ![k] = supertrend_basic_lower(st_df, k)]
           ELSE /\ st_final_upper' = [st_final_upper EXCEPT ![k] = supertrend_final_upper(supertrend_basic_upper(st_df, k), st_final_upper[k - 1], st_df[k - 1].close)]
                /\ st_final_lower' = [st_final_lower EXCEPT ![k] = supertrend_final_lower(supertrend_basic_lower(st_df, k), st_final_lower[k - 1], st_df[k - 1].close)]
    /\ IF st_i + 1 = Len(st_df)
       THEN st_pc' = "trend" /\ st_i' = st_period
       ELSE st_pc' = "bands" /\ st_i' = st_i + 1
    /\ UNCHANGED <<st_df, st_direction>>
    /\ UNCHANGED <<varsBT, varsBTG, varsSIM, varsBK, varsRK, varsMS, varsPOS,
                   varsSG, varsMIS, varsPF, varsMT,
                   varsTS,
                   varsLC,
                   varsLV>>

\* one iteration of the loop of lines 145-166; the function returns after
\* the last one
supertrend_trend_step ==
    /\ st_pc = "trend"
    /\ st_i < Len(st_df)
    /\ LET k == st_i + 1
       IN  st_direction' = [st_direction EXCEPT ![k] = supertrend_direction(st_df, k, st_final_upper[k], st_final_lower[k], st_direction[st_i])]
    /\ IF st_i + 1 = Len(st_df)
       THEN st_pc' = "returned" /\ st_i' = st_i
       ELSE st_pc' = "trend" /\ st_i' = st_i + 1
    /\ UNCHANGED <<st_df, st_final_upper, st_final_lower>>
    /\ UNCHANGED <<varsBT, varsBTG, varsSIM, varsBK, varsRK, varsMS, varsPOS,
                   varsSG, varsMIS, varsPF, varsMT,
                   varsTS,
                   varsLC,
                   varsLV>>

\* ----------------------------------------------------------------------
\* src/src/utils/risk_manager.py : apply_trailing_stop
\* ----------------------------------------------------------------------

\* twice RiskConfig.trail_atr_multiplier (1.5), the trail_multiplier that
\* Backtester._simulate_trades passes
ts_trail_multiplier2 == 3

\* np.nan as the value of current_stop
ts_NaN == 0 - 1000

ts_NoRow == [position |-> 0, close |-> 0, atr |-> 0]

\* rows of df: the position column of RuleBasedStrategy.generate_signals,
\* the close and the ATR
ts_Rows ==
    [position : {0 - 1, 0, 1}, close : {90, 100, 110}, atr : {2}]

\* trail_multiplier * row[atr_column]
ts_distance(row) == (ts_trail_multiplier2 * row.atr) \div 2

\* the body of the loop over df.iterrows() (lines 42-56): the new value of
\* current_stop; the position of the previous row is not looked at
apply_trailing_stop_row(current_stop, prev_position, row) ==
    IF row.position > 0
    THEN IF current_stop = ts_NaN
         THEN row.close - ts_distance(row)
         ELSE Max(current_stop, row.close - ts_distance(row))
    ELSE IF row.position < 0
    THEN IF current_stop = ts_NaN
         THEN row.close + ts_distance(row)
         ELSE Min(current_stop, row.close + ts_distance(row))
    ELSE ts_NaN

ts_Idle ==
    /\ ts_pc = "idle" /\ ts_n = 0 /\ ts_i = 0 /\ ts_row = ts_NoRow
    /\ ts_prev_position = 0 /\ ts_current_stop = ts_NaN /\ ts_trail = <<>>

\* trail = [], current_stop = np.nan, on a frame of ts_n rows
ts_Init ==
    /\ ts_pc = "loop"
    /\ ts_n \in 1..MaxTrail
    /\ ts_i = 0
    /\ ts_row = ts_NoRow
    /\ ts_prev_position = 0
    /\ ts_current_stop = ts_NaN
    /\ ts_trail = <<>>

\* one iteration of the loop.  position is signal.replace(0, nan).ffill()
\* .fillna(0), so it is 0 only before the first signal
apply_trailing_stop_step ==
    /\ ts_pc = "loop"
    /\ ts_i < ts_n
    /\ \E row \in ts_Rows :
        /\ row.position = 0 => ts_row.position = 0
        /\ ts_row' = row
        /\ ts_prev_position' = ts_row.position
        /\ ts_current_stop' = apply_trailing_stop_row(ts_current_stop, ts_row.position, row)
        /\ ts_trail' = Append(ts_trail, apply_trailing_stop_row(ts_current_stop, ts_row.position, row))
    /\ ts_i' = ts_i + 1
    /\ UNCHANGED <<ts_pc, ts_n>>
    /\ UNCHANGED <<varsBT, varsBTG, varsSIM, varsBK, varsRK, varsMS, varsPOS,
                   varsSG, varsMIS, varsPF, varsMT, varsST,
                   varsLC,
                   varsLV>>

\* return pd.Series(trail, ...)
apply_trailing_stop_return ==
    /\ ts_pc = "loop"
    /\ ts_i = ts_n
    /\ ts_pc' = "returned"
    /\ UNCHANGED <<ts_n, ts_i, ts_row, ts_prev_position, ts_current_stop, ts_trail>>
    /\ UNCHANGED <<varsBT, varsBTG, varsSIM, varsBK, varsRK, varsMS, varsPOS,
                   varsSG, varsMIS, varsPF, varsMT, varsST,
                   varsLC,
                   varsLV>>

\* ----------------------------------------------------------------------
\* src/trading_bot.py : TradingBot.run_trading_cycle, with the strategy's
\* should_enter_trade / should_exit_trade and the bot's one position
\* ----------------------------------------------------------------------

lc_Idle ==
    /\ lc_cycles = 0 /\ lc_position = "none" /\ lc_last_signal = mis_NoSignal
    /\ lc_signal = mis_NoSignal /\ lc_branch = "idle" /\ lc_entered = FALSE
    /\ lc_closed_after_buy = FALSE

\* a started bot: no position, strategy.last_signal None
lc_Init ==
    /\ lc_cycles = 0 /\ lc_position = "none" /\ lc_last_signal = mis_NoSignal
    /\ lc_signal = mis_NoSignal /\ lc_branch = "start" /\ lc_entered = FALSE
    /\ lc_closed_after_buy = FALSE

\* enter_position: only a BUY signal whose order succeeds opens a position
enter_position(signal, order_ok) ==
    IF signal.signal = "BUY" /\ order_ok THEN "long" ELSE "none"

\* exit_position and the stop-loss exit of check_and_manage_positions: the
\* position is removed when the sell order succeeds
exit_position(position, order_ok) ==
    IF position # "none" /\ order_ok THEN "none" ELSE position

\* a cycle that reaches the entry / exit decision (lines 243-273).
\* lc_closed_after_buy records that a position opened by an accepted BUY has
\* been closed and no BUY of sufficient strength has been received flat since.
run_trading_cycle ==
    /\ lc_branch # "idle"
    /\ lc_cycles < MaxCycles
    /\ \E signal \in mis_Signals \cup {mis_NoSignal},
          order_ok \in BOOLEAN, stop_loss_hit \in BOOLEAN :
        LET current_position == lc_position
            enter == should_enter_trade_result(signal, current_position,
                                               lc_last_signal)
            branch == IF signal # mis_NoSignal /\ current_position = "none"
                      THEN "entry"
                      ELSE IF current_position # "none" /\ signal # mis_NoSignal
                      THEN "exit" ELSE "manage"
            position1 ==
                IF branch = "entry"
                THEN IF enter[1] THEN enter_position(signal, order_ok)
                     ELSE current_position
                ELSE IF branch = "exit"
                THEN IF should_exit_trade_result(signal, current_position)
                     THEN exit_position(current_position, order_ok)
                     ELSE current_position
                ELSE current_position
            position2 == IF position1 # "none" /\ stop_loss_hit
                         THEN exit_position(position1, order_ok)
                         ELSE position1
            opened == current_position = "none" /\ position1 # "none"
            closed == \/ current_position # "none" /\ position1 = "none"
                      \/ position1 # "none" /\ position2 = "none"
            asked == /\ branch = "entry" /\ signal.signal = "BUY"
                     /\ signal.strength >= mis_strength_threshold
        IN  /\ lc_signal' = signal
            /\ lc_branch' = branch
            /\ lc_entered' = (branch = "entry" /\ enter[1])
            /\ lc_last_signal' = IF branch = "entry" THEN enter[2]
                                 ELSE lc_last_signal
            /\ lc_position' = position2
            /\ lc_closed_after_buy' =
                   IF closed THEN TRUE
                   ELSE IF asked THEN FALSE ELSE lc_closed_after_buy
    /\ lc_cycles' = lc_cycles + 1
    /\ UNCHANGED <<varsBT, varsBTG, varsSIM, varsBK, varsRK, varsMS, varsPOS,
                   varsSG, varsMIS, varsPF, varsMT, varsST, varsTS,
                   varsLV>>

\* a cycle in which should_exit_positions(shocks) holds (lines 234-241): the
\* position is exited and the cycle returns before any signal is read
run_trading_cycle_shock ==
    /\ lc_branch # "idle"
    /\ lc_cycles < MaxCycles
    /\ \E order_ok \in BOOLEAN :
        /\ lc_position' = exit_position(lc_position, order_ok)
        /\ lc_closed_after_buy' =
               IF lc_position # "none" /\ order_ok THEN TRUE
               ELSE lc_closed_after_buy
    /\ lc_branch' = "shock"
    /\ lc_entered' = FALSE
    /\ lc_cycles' = lc_cycles + 1
    /\ UNCHANGED <<lc_last_signal, lc_signal>>
    /\ UNCHANGED <<varsBT, varsBTG, varsSIM, varsBK, varsRK, varsMS, varsPOS,
                   varsSG, varsMIS, varsPF, varsMT, varsST, varsTS,
                   varsLV>>

\* ----------------------------------------------------------------------
\* src/trading_bot/main.py : run_live_trading and manage_open_positions,
\* with RiskManager.current_positions (src/trading_bot/trading/risk.py) and
\* PortfolioManager.positions (src/trading_bot/trading/portfolio.py)
\* ----------------------------------------------------------------------

\* settings.trading.trade_symbol
lv_symbol == "SYM"

\* settings.trading.max_positions (MAX_CONCURRENT_POSITIONS, 5 by default)
lv_MaxPositions == {0, 1, 5}

lv_NoSignal == [side |-> "NONE", qty |-> 0]

\* strategy.generate_signal: None or a signal with a side; qty is what
\* calculate_position_size returns for its entry price and stop
lv_Signals == [side : {"BUY", "SELL"}, qty : {0, 10}]

\* register_exit leaves the counter alone
register_exit_noop(current_positions) == current_positions

\* RiskManager.register_exit
register_exit(current_positions) ==
    IF current_positions > 0 THEN current_positions - 1 ELSE current_positions

\* RiskManager.register_fill
register_fill(current_positions) == current_positions + 1

\* RiskManager.can_enter_new_position
can_enter_new_position(current_positions, max_positions) ==
    current_positions < max_positions

\* PortfolioManager.get_position: the set holds the position of the symbol,
\* if there is one
get_position(positions, symbol) == { p \in positions : p.symbol = symbol }

\* PortfolioManager.add_position: self.positions[symbol] = position
add_position_of(positions, symbol, side) ==
    { p \in positions : p.symbol # symbol } \cup {[symbol |-> symbol, side |-> side]}

\* PortfolioManager.remove_position: self.positions.pop(symbol, None)
remove_position_of(positions, symbol) == { p \in positions : p.symbol # symbol }

lv_Idle ==
    /\ lv_pc = "idle" /\ lv_iterations = 0 /\ lv_max_positions = 0
    /\ lv_current_positions = 0 /\ lv_positions = {} /\ lv_signal = lv_NoSignal
    /\ lv_raised = "no"

\* run_live_trading before the loop (lines 19-42)
lv_Init ==
    /\ lv_pc = "entry"
    /\ lv_iterations = 0
    /\ lv_max_positions \in lv_MaxPositions
    /\ lv_current_positions = 0
    /\ lv_positions = {}
    /\ lv_signal = lv_NoSignal
    /\ lv_raised = "no"

\* lines 46-70 of one iteration: data, signal and the entry order.  An
\* exception (from get_ohlc, enrich, generate_signal or place_order) goes to
\* the handler of lines 77-82, which ends the iteration
run_live_trading_entry ==
    /\ lv_pc = "entry"
    /\ lv_iterations < MaxCycles
    /\ \E signal \in lv_Signals \cup {lv_NoSignal},
          data_raises \in BOOLEAN, order_raises \in BOOLEAN :
        LET wanted == /\ signal # lv_NoSignal
                      /\ can_enter_new_position(lv_current_positions,
                                                lv_max_positions)
                      /\ get_position(lv_positions, lv_symbol) = {}
            placed == wanted /\ signal.qty > 0
        IN  IF data_raises
            THEN /\ lv_raised' = "data"
                 /\ lv_pc' = "entry"
                 /\ lv_iterations' = lv_iterations + 1
                 /\ UNCHANGED <<lv_signal, lv_current_positions, lv_positions>>
            ELSE IF placed /\ order_raises
            THEN /\ lv_raised' = "order"
                 /\ lv_signal' = signal
                 /\ lv_pc' = "entry"
                 /\ lv_iterations' = lv_iterations + 1
                 /\ UNCHANGED <<lv_current_positions, lv_positions>>
            ELSE /\ lv_raised' = "no"
                 /\ lv_signal' = signal
                 /\ lv_pc' = "manage"
                 /\ lv_iterations' = lv_iterations
                 /\ lv_current_positions' =
                        IF placed THEN register_fill(lv_current_positions)
                        ELSE lv_current_positions
                 /\ lv_positions' =
                        IF placed
                        THEN add_position_of(lv_positions, lv_symbol, signal.side)
                        ELSE lv_positions
    /\ UNCHANGED lv_max_positions
    /\ UNCHANGED <<varsBT, varsBTG, varsSIM, varsBK, varsRK, varsMS, varsPOS,
                   varsSG, varsMIS, varsPF, varsMT, varsST, varsTS, varsLC>>

\* manage_open_positions (lines 87-106) called at line 72, then the end of
\* the iteration: every position whose stop or target is hit is closed by an
\* order; an exception from talib.ATR or place_order goes to the handler
manage_open_positions ==
    /\ lv_pc = "manage"
    /\ \E hit \in BOOLEAN, atr_raises \in BOOLEAN, order_raises \in BOOLEAN :
        IF atr_raises \/ (lv_positions # {} /\ hit /\ order_raises)
        THEN /\ lv_raised' = IF atr_raises THEN "data" ELSE "order"
             /\ UNCHANGED <<lv_current_positions, lv_positions>>
        ELSE /\ lv_raised' = "no"
             /\ lv_positions' =
                    IF hit THEN {} ELSE lv_positions
             /\ lv_current_positions' =
                    IF hit /\ lv_positions # {}
                    THEN register_exit(lv_current_positions)
                    ELSE lv_current_positions
    /\ lv_pc' = "entry"
    /\ lv_iterations' = lv_iterations + 1
    /\ UNCHANGED <<lv_max_positions, lv_signal>>
    /\ UNCHANGED <<varsBT, varsBTG, varsSIM, varsBK, varsRK, varsMS, varsPOS,
                   varsSG, varsMIS, varsPF, varsMT, varsST, varsTS, varsLC>>

\* ======================================================================
\* Specifications
\* ======================================================================

\* A run of src/src/backtest/backtest_engine.py
Init == bt_Init /\ btg_Idle /\ sim_Idle /\ bk_Idle /\ rk_Idle /\ ms_Idle /\ pos_Idle /\ sg_Idle
    /\ mis_Idle /\ pf_Idle /\ mt_Idle /\ st_Idle /\ ts_Idle /\ lc_Idle /\ lv_Idle

Next == bt_Bar \/ bt_Finish

Spec == Init /\ [][Next]_vars

\* A run of src/src/backtesting/backtest_engine.py
InitBacktesting == bt_Idle /\ btg_Init /\ sim_Idle /\ bk_Idle /\ rk_Idle /\ ms_Idle /\ pos_Idle /\ sg_Idle
    /\ mis_Idle /\ pf_Idle /\ mt_Idle /\ st_Idle /\ ts_Idle /\ lc_Idle /\ lv_Idle

NextBacktesting == btg_Bar \/ btg_Finish

SpecBacktesting == InitBacktesting /\ [][NextBacktesting]_vars

\* A run of either of the two run_backtest engines
InitEngines ==
    /\ \/ bt_Init /\ btg_Idle
       \/ bt_Idle /\ btg_Init
    /\ sim_Idle /\ bk_Idle /\ rk_Idle /\ ms_Idle /\ pos_Idle /\ sg_Idle
    /\ mis_Idle /\ pf_Idle /\ mt_Idle /\ st_Idle /\ ts_Idle /\ lc_Idle /\ lv_Idle

NextEngines == bt_Bar \/ bt_Finish \/ btg_Bar \/ btg_Finish

SpecEngines == InitEngines /\ [][NextEngines]_vars

\* A run of src/backtesting/backtest_engine.py _simulate_trading
InitSimulate == bt_Idle /\ btg_Idle /\ sim_Init /\ bk_Idle /\ rk_Idle /\ ms_Idle /\ pos_Idle /\ sg_Idle
    /\ mis_Idle /\ pf_Idle /\ mt_Idle /\ st_Idle /\ ts_Idle /\ lc_Idle /\ lv_Idle

NextSimulate == sim_Bar \/ sim_Finish

SpecSimulate == InitSimulate /\ [][NextSimulate]_vars

\* A run of Backtester._simulate_trades
InitBacktester == bt_Idle /\ btg_Idle /\ sim_Idle /\ bk_Init /\ rk_Idle /\ ms_Idle /\ pos_Idle /\ sg_Idle
    /\ mis_Idle /\ pf_Idle /\ mt_Idle /\ st_Idle /\ ts_Idle /\ lc_Idle /\ lv_Idle

NextBacktester == bk_Bar \/ bk_Return

SpecBacktester == InitBacktester /\ [][NextBacktester]_vars

\* One call of calculate_position_size
InitRisk == bt_Idle /\ btg_Idle /\ sim_Idle /\ bk_Idle /\ rk_Init /\ ms_Idle /\ pos_Idle /\ sg_Idle
    /\ mis_Idle /\ pf_Idle /\ mt_Idle /\ st_Idle /\ ts_Idle /\ lc_Idle /\ lv_Idle

NextRisk == rk_Risk \/ rk_RiskManagement

SpecRisk == InitRisk /\ [][NextRisk]_vars

\* A run of MomentumStrategy.backtest
InitMomentum == bt_Idle /\ btg_Idle /\ sim_Idle /\ bk_Idle /\ rk_Idle /\ ms_Init /\ pos_Idle /\ sg_Idle
    /\ mis_Idle /\ pf_Idle /\ mt_Idle /\ st_Idle /\ ts_Idle /\ lc_Idle /\ lv_Idle

NextMomentum == ms_Bar \/ ms_Finish

SpecMomentum == InitMomentum /\ [][NextMomentum]_vars

\* The life of one position in RiskManager.open_positions
InitPosition == bt_Idle /\ btg_Idle /\ sim_Idle /\ bk_Idle /\ rk_Idle /\ ms_Idle /\ pos_Init /\ sg_Idle
    /\ mis_Idle /\ pf_Idle /\ mt_Idle /\ st_Idle /\ ts_Idle /\ lc_Idle /\ lv_Idle

NextPosition == add_position \/ update_position \/ remove_position

SpecPosition == InitPosition /\ [][NextPosition]_vars

\* generate_signals of MomentumStrategy or of RuleBasedStrategy on one frame
InitSignals == bt_Idle /\ btg_Idle /\ sim_Idle /\ bk_Idle /\ rk_Idle /\ ms_Idle /\ pos_Idle /\ sg_Init
    /\ mis_Idle /\ pf_Idle /\ mt_Idle /\ st_Idle /\ ts_Idle /\ lc_Idle /\ lv_Idle

NextSignals == momentum_generate_signals \/ rule_based_generate_signals \/ sg_Return

SpecSignals == InitSignals /\ [][NextSignals]_vars

\* A run of src/src/backtest/backtest_engine.py on any frame
InitFrames == bt_InitAnyFrame /\ btg_Idle /\ sim_Idle /\ bk_Idle /\ rk_Idle /\ ms_Idle /\ pos_Idle /\ sg_Idle
    /\ mis_Idle /\ pf_Idle /\ mt_Idle /\ st_Idle /\ ts_Idle /\ lc_Idle /\ lv_Idle

NextFrames == bt_BarAnyFrame \/ bt_Finish

SpecFrames == InitFrames /\ [][NextFrames]_vars

\* Three runs of one BacktestEngine instance, as in the symbol loop of
\* src/backtest.py: a frame, any frame, the first frame again
InitRerun == bt_Init /\ btg_Idle /\ sim_Idle /\ bk_Idle /\ rk_Idle /\ ms_Idle /\ pos_Idle /\ sg_Idle
    /\ mis_Idle /\ pf_Idle /\ mt_Idle /\ st_Idle /\ ts_Idle /\ lc_Idle /\ lv_Idle

NextRerun == bt_FirstRunBar \/ bt_OtherRunBar \/ bt_SameRunBar \/ bt_Finish \/ bt_RunAgain

SpecRerun == InitRerun /\ [][NextRerun]_vars

\* src/backtest_runner.py: one symbol of run_multiple_backtests
InitRunner == bt_Idle /\ btg_Init /\ sim_Idle /\ bk_Idle /\ rk_Idle /\ ms_Idle /\ pos_Idle /\ sg_Idle
    /\ mis_Idle /\ pf_Idle /\ mt_Idle /\ st_Idle /\ ts_Idle /\ lc_Idle /\ lv_Idle

NextRunner == btg_Bar \/ btg_Finish \/ runner_run_backtest \/ run_multiple_backtests

SpecRunner == InitRunner /\ [][NextRunner]_vars

\* Calls of should_enter_trade and should_exit_trade on one strategy object
InitEntry == bt_Idle /\ btg_Idle /\ sim_Idle /\ bk_Idle /\ rk_Idle /\ ms_Idle /\ pos_Idle /\ sg_Idle
    /\ mis_Init /\ pf_Idle /\ mt_Idle /\ st_Idle /\ ts_Idle /\ lc_Idle /\ lv_Idle

NextEntry == should_enter_trade \/ should_exit_trade

SpecEntry == InitEntry /\ [][NextEntry]_vars

\* A multi-symbol batch
InitBatch == bt_Idle /\ btg_Idle /\ sim_Idle /\ bk_Idle /\ rk_Idle /\ ms_Idle /\ pos_Idle /\ sg_Idle
    /\ mis_Idle /\ pf_Init /\ mt_Idle /\ st_Idle /\ ts_Idle /\ lc_Idle /\ lv_Idle

NextBatch == run_portfolio_backtest_ticker \/ Backtester_run_symbol \/ pf_Return

SpecBatch == InitBatch /\ [][NextBatch]_vars

\* One call of _calculate_metrics
InitMetrics == bt_Idle /\ btg_Idle /\ sim_Idle /\ bk_Idle /\ rk_Idle /\ ms_Idle /\ pos_Idle /\ sg_Idle
    /\ mis_Idle /\ pf_Idle /\ mt_Init /\ st_Idle /\ ts_Idle /\ lc_Idle /\ lv_Idle

NextMetrics == bt_calculate_metrics_call \/ btg_calculate_metrics_call

SpecMetrics == InitMetrics /\ [][NextMetrics]_vars

\* One call of TechnicalIndicators.calculate_supertrend
InitSupertrend == bt_Idle /\ btg_Idle /\ sim_Idle /\ bk_Idle /\ rk_Idle /\ ms_Idle /\ pos_Idle /\ sg_Idle
    /\ mis_Idle /\ pf_Idle /\ mt_Idle /\ st_Init /\ ts_Idle /\ lc_Idle /\ lv_Idle

NextSupertrend == supertrend_bands_step \/ supertrend_trend_step

SpecSupertrend == InitSupertrend /\ [][NextSupertrend]_vars

\* One call of apply_trailing_stop
InitTrailing == bt_Idle /\ btg_Idle /\ sim_Idle /\ bk_Idle /\ rk_Idle /\ ms_Idle /\ pos_Idle /\ sg_Idle
    /\ mis_Idle /\ pf_Idle /\ mt_Idle /\ st_Idle /\ ts_Init /\ lc_Idle /\ lv_Idle

NextTrailing == apply_trailing_stop_step \/ apply_trailing_stop_return

SpecTrailing == InitTrailing /\ [][NextTrailing]_vars

\* Trading cycles of one TradingBot of src/trading_bot.py
InitCycle == bt_Idle /\ btg_Idle /\ sim_Idle /\ bk_Idle /\ rk_Idle /\ ms_Idle /\ pos_Idle /\ sg_Idle
    /\ mis_Idle /\ pf_Idle /\ mt_Idle /\ st_Idle /\ ts_Idle /\ lc_Init /\ lv_Idle

NextCycle == run_trading_cycle \/ run_trading_cycle_shock

SpecCycle == InitCycle /\ [][NextCycle]_vars

\* The loop of run_live_trading
InitLive == bt_Idle /\ btg_Idle /\ sim_Idle /\ bk_Idle /\ rk_Idle /\ ms_Idle /\ pos_Idle /\ sg_Idle
    /\ mis_Idle /\ pf_Idle /\ mt_Idle /\ st_Idle /\ ts_Idle /\ lc_Idle /\ lv_Init

NextLive == run_live_trading_entry \/ manage_open_positions

SpecLive == InitLive /\ [][NextLive]_vars

\* ======================================================================
\* Properties
\* ======================================================================

Last(seq) == seq[Len(seq)]

\* C1: when run_backtest of src/src/backtest has returned, initial_capital
\* plus the sum of pnl over the recorded trades equals the final capital
\* handed to the metrics.
C1_Conservation ==
    bt_pc = "done" =>
        bt_initial_capital + SumPnl(bt_trades) = bt_results.final_capital

\* C2: during the bar loop the positions opened and not yet recorded as a
\* trade are exactly the one held (at most one), and consecutive trades of the
\* log do not overlap: the earlier exit_date is not after the later entry_date.
C2_SinglePosition ==
    /\ bt_pc = "loop" =>
           bt_opened - Len(bt_trades) = (IF bt_position # None THEN 1 ELSE 0)
    /\ \A k \in 1..(Len(bt_trades) - 1) :
           bt_trades[k].exit_date <= bt_trades[k + 1].entry_date

C2_Witness ==
    /\ Len(bt_trades) >= 2
    /\ bt_trades[1].exit_date = bt_trades[2].entry_date
    /\ bt_pc = "loop"
    /\ bt_position # None

\* C4: on a bar that starts with an open LONG position the exit is decided
\* before any entry, and the recorded exit reason is the first condition that
\* holds in the order stop loss, trailing stop, RSI overbought, MACD bearish
\* crossover, Supertrend downtrend, close below EMA; exactly one trade is
\* recorded, and a position held after an exit was opened on that same bar.
C4_ExitPriority ==
    [][ (bt_pc = "loop" /\ bt_i' = bt_i + 1 /\ bt_position # None) =>
        LET row == bt_cur'
            hi == Max(bt_position.highest, row.High)
            stop == row.Low * 100 <= bt_position.entry_price * (100 - STOP_LOSS_PERCENT)
            trail == row.Low * 100 <= hi * (100 - TRAILING_STOP_PERCENT)
            rsi == row.RSI > 70
            macd == row.MACD < row.MACD_Signal /\ bt_cur.MACD >= bt_cur.MACD_Signal
            st == row.Supertrend_Direction = -1
            ema == row.Close < row.EMA
            first == IF stop THEN "Stop Loss Hit"
                     ELSE IF trail THEN "Trailing Stop Loss"
                     ELSE IF rsi THEN "RSI Overbought"
                     ELSE IF macd THEN "MACD Bearish Crossover"
                     ELSE IF st THEN "Supertrend Downtrend"
                     ELSE "Price Below EMA"
        IN  IF stop \/ trail \/ rsi \/ macd \/ st \/ ema
            THEN /\ Len(bt_trades') = Len(bt_trades) + 1
                 /\ Last(bt_trades').exit_reason = first
                 /\ Last(bt_trades').entry_date = bt_position.entry_date
                 /\ Last(bt_trades').exit_date = bt_i
                 /\ bt_position' # None => bt_position'.entry_index = bt_i
            ELSE /\ bt_trades' = bt_trades
                 /\ bt_position' # None
                 /\ bt_position'.entry_index = bt_position.entry_index
      ]_vars

\* A stop-loss exit on a bar where the trailing stop and RSI overbought hold
\* too, followed by a new entry on that same bar.
C4_Witness ==
    /\ bt_trades # <<>>
    /\ Last(bt_trades).exit_date = bt_i - 1
    /\ Last(bt_trades).exit_reason = "Stop Loss Hit"
    /\ bt_cur.Low * 100 <= bt_cur.High * (100 - TRAILING_STOP_PERCENT)
    /\ bt_cur.RSI > 70
    /\ bt_position # None
    /\ bt_position.entry_index = bt_i - 1

\* C6: when run_backtest of src/src/backtest returns, a position still open
\* after the last bar has been recorded as one further trade, closed at the
\* last close less slippage with reason 'End of Data', and every opened
\* position has exactly one trade.
C6_EndOfData ==
    bt_pc = "done" =>
        /\ Len(bt_trades) = bt_opened
        /\ \A k \in 1..(Len(bt_trades) - 1) :
               bt_trades[k].exit_reason # "End of Data"
        /\ bt_position # None =>
               /\ Last(bt_trades).exit_reason = "End of Data"
               /\ Last(bt_trades).exit_price * FracDen
                      = bt_cur.Close * (FracDen - bt_slippage)
               /\ Last(bt_trades).exit_date = bt_n - 1
               /\ Last(bt_trades).entry_date = bt_position.entry_date
               /\ Last(bt_trades).quantity = bt_position.quantity
        /\ bt_position = None /\ bt_trades # <<>> =>
               Last(bt_trades).exit_reason # "End of Data"

C6_Witness ==
    /\ bt_pc = "done"
    /\ bt_position # None
    /\ Len(bt_trades) >= 2
    /\ Last(bt_trades).exit_reason = "End of Data"

C3_StopLossBeforeSignal ==
    [][ (/\ sim_pc = "loop" /\ sim_i' = sim_i + 1 /\ sim_position # None
         /\ sim_cur'.close <= sim_position.stop_loss
         /\ sim_cur'.signal = -1)
        => /\ Len(sim_trades') = Len(sim_trades) + 1
           /\ Last(sim_trades').exit_reason = "stop_loss"
      ]_vars

\* C5: in run_backtest of src/src/backtesting, an equity point recorded while
\* a position is open equals the cash balance plus quantity times the bar's
\* close.
C5_EquityMarkToMarket ==
    [][ (btg_pc = "loop" /\ btg_i' = btg_i + 1 /\ btg_position # None)
        => Last(btg_equity_curve')
               = btg_capital + btg_position.quantity * btg_cur'.close
      ]_vars

\* C7: when _simulate_trades of src/src/backtest/backtester.py returns, a
\* position still open at the last bar has been closed at the last close and
\* is in the returned trade log.
C7_OpenTradeRecordedAtEnd ==
    (bk_pc = "done" /\ bk_current_trade # None) =>
        /\ bk_trades # <<>>
        /\ Last(bk_trades).entry_date = bk_current_trade.entry_date
        /\ Last(bk_trades).exit_date = bk_n - 1
        /\ Last(bk_trades).exit_price = bk_row.close

\* C8: in run_backtest of src/src/backtesting, a bar on which the open
\* position is closed and whose signal is 1 opens a new position on that
\* same bar.
C8_ExitThenEntrySameBar ==
    [][ (/\ btg_pc = "loop" /\ btg_i' = btg_i + 1 /\ btg_position # None
         /\ Len(btg_trades') = Len(btg_trades) + 1
         /\ btg_cur'.signal = 1)
        => /\ btg_position' # None
           /\ btg_position'.entry_date = btg_i
      ]_vars

\* C10: the quantity q returned by calculate_position_size satisfies
\* q * entry_price <= capital * max_position_size (src/src/risk) and
\* q * entry_price <= portfolio_value * max_position_size
\* (src/src/risk_management).
C10_PositionValueCap ==
    /\ rk_pc = "risk" =>
           rk_quantity * rk_args.entry_price * 100
               <= rk_args.capital * MAX_POSITION_SIZE
    /\ rk_pc = "risk_management" =>
           rk_quantity * rk_args.entry_price * 100
               <= rk_args.capital * rm_max_position_size

\* C11: in MomentumStrategy.backtest a sized quantity of 0 opens no position,
\* so every trade of the returned trade log has quantity > 0.
C11_QuantityPositive ==
    ms_pc = "done" =>
        \A k \in 1..Len(ms_trades) : ms_trades[k].quantity > 0

\* C14: for a LONG position the recorded trailing_stop, from add_position
\* through every update_position, never decreases while the position is open.
C14_LongTrailingStopMonotone ==
    [][(pos_position.type = "LONG" /\ pos_position'.type = "LONG")
          => pos_position'.trailing_stop >= pos_position.trailing_stop]_vars

\* C15: for a SHORT position the trailing_stop left by one update_position
\* call is never raised by the next update_position call.
C15_ShortTrailingStopRatchet ==
    [][(/\ pos_position.type = "SHORT" /\ pos_position'.type = "SHORT"
        /\ pos_calls >= 1)
          => pos_position'.trailing_stop <= pos_position.trailing_stop]_vars

\* C12: calculate_position_size of src/src/risk_management returns quantity 0
\* whenever entry_price equals stop_loss, for every position-sizing method.
C12_ZeroRiskZeroQuantity ==
    (rk_pc = "risk_management" /\ rk_args.entry_price = rk_args.stop_loss)
        => rk_quantity = 0

\* C13: in the src/src/backtest engine the quantity of every entry is the
\* size RiskManager.calculate_position_size gives for the account equity at
\* the time of that entry (the cash held, flat, just before the entry debit).
C13_QuantityFromCurrentEquity ==
    [][bt_opened' = bt_opened + 1 =>
          LET sig == calculate_signals(bt_insufficient, bt_i, bt_cur', bt_cur)
              equity == bt_capital'
                          + bt_position'.quantity * bt_position'.entry_price
          IN  bt_position'.quantity =
                  risk_calculate_position_size(equity, 0, sig[2], sig[3],
                                               get_signal_strength(bt_cur'))]_vars

\* C16: in the src/src/backtest engine an entry signal received while flat
\* (from the start of the bar, or after the exit of that bar) whose cost,
\* quantity times the slippage-adjusted entry price, exceeds the cash held is
\* a no-op: the cash stays what it was before the attempt, no position is
\* opened and nothing but the exit of that bar is added to the trade log.
C16_InsufficientCashNoOp ==
    [][LET sig == calculate_signals(bt_insufficient, bt_i, bt_cur', bt_cur)
           exited == Len(bt_trades') > Len(bt_trades)
           cash == IF exited THEN bt_capital + Last(bt_trades').pnl
                   ELSE bt_capital
           quantity == risk_calculate_position_size(bt_initial_capital, 0,
                           sig[2], sig[3], get_signal_strength(bt_cur'))
       IN  (/\ bt_pc = "loop" /\ bt_i' = bt_i + 1
            /\ (bt_position = None \/ exited)
            /\ sig[1] = 1 /\ quantity > 0
            /\ bt_SlipUp(sig[2]) * quantity > cash)
           => /\ bt_capital' = cash
              /\ bt_position' = None
              /\ bt_opened' = bt_opened
              /\ Len(bt_trades') = Len(bt_trades) + (IF exited THEN 1 ELSE 0)
              /\ bt_pc' = "loop"]_vars

\* A bar with an entry signal was processed, the engine is flat and the cash
\* is below the cost of the sized entry: the attempt was refused.
C16_Witness ==
    /\ bt_pc = "loop" /\ bt_i >= 2 /\ bt_position = None
    /\ check_entry_conditions(bt_cur, NoRow)[1] = 1
    /\ LET quantity == risk_calculate_position_size(bt_initial_capital, 0,
                           bt_cur.Close, bt_StopLevel(bt_cur.Close),
                           get_signal_strength(bt_cur))
       IN  quantity > 0 /\ bt_SlipUp(bt_cur.Close) * quantity > bt_capital

\* C17: in src/src/backtesting every trade's exit price is the reference
\* price of its exit (the stop-loss level, the take-profit level, or the close
\* for a signal or end-of-data exit) moved against the trader by the slippage
\* fraction: exactly reference * (1 - slippage) as the price commission is then
\* applied to inside the loop, and no more than that for the end-of-data
\* price, which is recorded net of commission as well.
C17_ExitSlippage ==
    [][Len(btg_trades') = Len(btg_trades) + 1 =>
          LET t == Last(btg_trades')
              reference ==
                  IF t.exit_reason = "stop_loss" THEN btg_position.stop_loss
                  ELSE IF t.exit_reason = "take_profit"
                  THEN btg_position.take_profit
                  ELSE btg_cur'.close
              slipped == reference * (btg_Den - btg_slippage)
          IN  IF t.exit_reason = "end_of_data"
              THEN t.exit_price * btg_Den <= slipped
              ELSE t.exit_price * btg_Den = slipped]_vars

\* C18: for every run of _simulate_trading of src/backtesting, initial_capital
\* plus the sum of pnl over the recorded trades equals the returned
\* final_equity.
C18_SimulateConservation ==
    sim_pc = "done" =>
        INITIAL_CAPITAL * sim_Unit + SumPnl(sim_trades) = sim_equity

C20_EntryRequiresAllConditions ==
    [][(/\ bt_pc = "loop" /\ bt_i' = bt_i + 1
        /\ calculate_signals(bt_insufficient, bt_i, bt_cur', bt_cur)[1] = 1)
          => /\ bt_cur'.Close > bt_cur'.EMA
             /\ bt_cur'.Supertrend_Direction = 1
             /\ bt_cur.defined
             /\ bt_cur.MACD <= bt_cur.MACD_Signal
             /\ bt_cur'.MACD > bt_cur'.MACD_Signal
             /\ bt_cur'.RSI < 30]_vars

\* C21: in the RuleBasedStrategy / Backtester pipeline a held long position
\* leaves +1 on any bar with a bearish MACD crossover, an RSI cross of the
\* opposite extreme or a trend filter that is no longer bullish, without the
\* full short-entry condition.
C21_LongExitOnAnyCondition ==
    [][(/\ sg_strategy = "rule_based"
        /\ sg_out.position = 1
        /\ sg_i' = sg_i + 1
        /\ \/ sg_out'.macd_down
           \/ sg_out'.rsi_short
           \/ ~sg_out'.bullish_trend)
       => sg_out'.position # 1]_vars

\* C22: on every bar the signal_strength RuleBasedStrategy.generate_signals
\* writes lies in [0, 1] (0..100 hundredths).
C22_SignalStrengthInUnitInterval ==
    (sg_strategy = "rule_based" /\ sg_i > 0)
        => (0 <= sg_out.signal_strength /\ sg_out.signal_strength <= 100)

\* C24: in MomentumStrategy.generate_signals and RuleBasedStrategy.generate_signals
\* no bar satisfies the long (buy) and the short (sell) condition at once, so
\* the signal written for a bar is never overwritten by the opposite one.
C24_LongShortExclusive ==
    /\ ~(sg_out.long /\ sg_out.short)
    /\ sg_out.long => sg_out.signal = 1

C24_Witness ==
    /\ sg_strategy = "momentum"
    /\ sg_i > 0
    /\ sg_out.long
    /\ sg_out.signal = 1

\* C25: MomentumStrategy.generate_signals leaves signal at 0 on each of the
\* first max(period)-1 rows (ema_period - 1 = 199 by default).
C25_NoSignalInWarmUp ==
    (/\ sg_strategy = "momentum"
     /\ sg_i > 0
     /\ sg_first + sg_i - 1 < ema_period - 1)
        => sg_out.signal = 0

\* C26: TradingStrategy.calculate_signals fails with an insufficient-data
\* error on a frame shorter than the largest indicator period: run_backtest,
\* which calls it before the bar loop, processes no bar and does not complete.
C26_InsufficientDataFails ==
    bt_insufficient => (bt_i = 0 /\ bt_pc # "done")

\* C27: run_backtest, given a bar with High < Low or a timestamp that is not
\* after the previous one, raises before any simulation state is modified:
\* the trade log, cash, position and equity curve are as the reset left them
\* and the run does not complete.
C27_MalformedFrameRejected ==
    bt_bad => /\ bt_trades = <<>>
              /\ bt_capital = bt_initial_capital
              /\ bt_position = None
              /\ bt_equity_curve = bt_reset_equity_curve
              /\ bt_pc # "done"

\* C30: run_backtest on identical bars yields an identical trade log and
\* equity curve, also on an engine instance used for earlier runs: the third
\* run, on the bars of the first, ends with what the first run produced.
C30_RerunDeterministic ==
    (bt_run = 3 /\ bt_pc = "done")
        => /\ bt_trades = bt_first.trades
           /\ bt_equity_curve = bt_first.equity_curve

C30_Witness ==
    /\ bt_run = 3
    /\ bt_pc = "done"
    /\ Len(bt_trades) >= 2
    /\ bt_first.trades = bt_trades

\* C29: in src/backtest_runner.py a run that produces zero trades completes
\* normally, run_backtest returns the zero-metrics report and the symbol is
\* in the summary of run_multiple_backtests.
C29_ZeroTradeRunReported ==
    (btg_trades = <<>> /\ btg_pc \in {"reported", "summarised"})
        => /\ btg_outcome = "returned"
           /\ btg_pc = "summarised" => btg_all_results = <<btg_results>>

\* C23: should_enter_trade never rejects an entry because of the signal's
\* strength: a call with a signal, no current position and a signal type
\* other than the last accepted one returns True whatever the strength.
C23_StrengthNeverGatesEntry ==
    [][(/\ mis_op' = "enter"
        /\ mis_calls' = mis_calls + 1
        /\ mis_signal' # mis_NoSignal
        /\ mis_current_position' = "none"
        /\ \/ mis_last_signal = mis_NoSignal
           \/ mis_last_signal.signal # mis_signal'.signal)
       => mis_result']_vars

\* C28: a failure while backtesting one symbol does not abort the batch: when
\* run_portfolio_backtest or Backtester.run ends, every symbol has been taken
\* up and every symbol whose own backtest succeeds is in the results.
C28_SymbolFailureDoesNotAbortBatch ==
    pf_pc \in {"returned", "raised"}
        => /\ pf_i = Len(pf_inputs)
           /\ \A k \in 1..Len(pf_inputs) :
                (pf_engine = "portfolio" /\ pf_inputs[k] = "ok")
                    => k \in pf_results

\* C31: in _calculate_metrics of src/src/backtest/backtest_engine.py, a
\* non-empty trade log with no trade of negative pnl gives profit_factor 0,
\* never NaN.
C31_ProfitFactorFallback ==
    (/\ mt_pc = "returned" /\ mt_engine = "bt"
     /\ mt_pnls # <<>>
     /\ \A k \in 1..Len(mt_pnls) : mt_pnls[k] >= 0)
        => mt_results.profit_factor = mt_Float(0, 1)

\* C32: in _calculate_metrics of src/src/backtesting/backtest_engine.py,
\* max_consecutive_wins and max_consecutive_losses are the lengths of the
\* longest contiguous runs of trades with pnl > 0 and with pnl < 0, so they
\* are at most winning_trades and losing_trades.
C32_LongestStreaks ==
    (mt_pc = "returned" /\ mt_engine = "btg" /\ mt_pnls # <<>>)
        => LET n == Len(mt_pnls)
               Runs(sign) ==
                   { p[2] - p[1] + 1 :
                       p \in { q \in (1..n) \X (1..n) :
                                 /\ q[1] <= q[2]
                                 /\ \A k \in q[1]..q[2] : mt_pnls[k] * sign > 0 } }
                   \cup {0}
               Longest(sign) ==
                   CHOOSE m \in Runs(sign) : \A x \in Runs(sign) : x <= m
           IN  /\ mt_results.max_consecutive_wins = Longest(1)
               /\ mt_results.max_consecutive_losses = Longest(0 - 1)
               /\ mt_results.max_consecutive_wins <= mt_results.winning_trades
               /\ mt_results.max_consecutive_losses <= mt_results.losing_trades

\* C34: _calculate_metrics of both engines reports, for a non-empty trade
\* log, cagr = 0 when years = days / 365.25 is not positive, and otherwise
\* the rate r with (1 + r) ** years = final_capital / initial_capital (to the
\* resolution of one hundredth of a percent); 100000 grown to 200000 over 5
\* years gives about 14.87.
C34_CagrFormula ==
    /\ calculate_cagr(200000, 100000, 5) \in {1486, 1487}
    /\ (mt_pc = "returned" /\ mt_pnls # <<>>)
           => LET years == mt_years(mt_days)
                  ratio == (mt_final_capital * mt_One) \div mt_initial_capital
                  cagr  == mt_results.cagr
              IN  /\ 1461 * years = 4 * mt_days
                  /\ years <= 0 => cagr = 0
                  /\ years > 0 => /\ mt_pow(mt_One + cagr, years) <= ratio
                                  /\ mt_pow(mt_One + cagr + 1, years) > ratio

\* a call that returned the cagr of a capital doubled over four years
C34_Witness ==
    /\ mt_pc = "returned"
    /\ mt_pnls # <<>>
    /\ mt_days = 1461
    /\ mt_final_capital = 200000
    /\ mt_results.cagr = 1892

\* C33: in calculate_supertrend, on every bar after the first computed one
\* the final upper band is not above the previous bar's unless the previous
\* close was above the previous upper band, and the final lower band is not
\* below the previous bar's unless the previous close was below the previous
\* lower band.
C33_BandsRatchet ==
    \A k \in 1..Len(st_df) :
        (k - 1 > st_period /\ st_final_upper[k] # st_NaN)
            => /\ \/ st_final_upper[k] <= st_final_upper[k - 1]
                  \/ st_df[k - 1].close > st_final_upper[k - 1]
               /\ \/ st_final_lower[k] >= st_final_lower[k - 1]
                  \/ st_df[k - 1].close < st_final_lower[k - 1]

\* a returned call in which the upper band came down on one bar, rose after
\* a close above it on another, and the lower band rose on some bar
C33_Witness ==
    /\ st_pc = "returned"
    /\ \E k \in (st_period + 2)..Len(st_df) : st_final_upper[k] < st_final_upper[k - 1]
    /\ \E k \in (st_period + 2)..Len(st_df) : st_final_upper[k] > st_final_upper[k - 1]
    /\ \E k \in (st_period + 2)..Len(st_df) : st_final_lower[k] > st_final_lower[k - 1]

\* C35: in the src/src/backtest engine every trade closed by 'Stop Loss Hit'
\* or 'Trailing Stop Loss' has a pre-slippage exit price within the exit
\* bar's [Low, High] range.
C35_StopExitWithinBar ==
    [][(bt_position # None /\ Len(bt_trades') = Len(bt_trades) + 1)
        => LET highest == Max(bt_position.highest, bt_cur'.High)
               ex == check_exit_conditions(bt_cur', bt_cur, bt_i > 0,
                         bt_position.entry_price, highest)
           IN  bt_trades'[Len(bt_trades')].exit_reason
                       \in {"Stop Loss Hit", "Trailing Stop Loss"}
                   => /\ bt_cur'.Low <= ex[3]
                      /\ ex[3] <= bt_cur'.High]_vars

\* C36: in apply_trailing_stop, on every bar whose position sign differs
\* from the previous bar's, a direct flip included, the stop of the new
\* position is close - k * ATR for a long and close + k * ATR for a short.
C36_StopRestartsOnNewPosition ==
    (ts_i > 0 /\ ts_row.position # 0 /\ ts_row.position # ts_prev_position)
        => /\ ts_current_stop = ts_row.close - ts_row.position * ts_distance(ts_row)
           /\ ts_trail[ts_i] = ts_current_stop

\* C37: Backtester.run completes and returns exactly one BacktestReport per
\* input symbol whenever signal generation succeeds for every symbol.
C37_OneReportPerSymbol ==
    (pf_engine = "backtester" /\ pf_pc \in {"returned", "raised"})
        => /\ pf_pc = "returned"
           /\ pf_results = 1..Len(pf_inputs)

\* C38: in the live cycle, once a BUY entry has been accepted and the
\* resulting position closed, the next BUY signal of strength >= 0.5 that
\* arrives while the bot is flat is accepted by should_enter_trade.
C38_ReentryAfterClose ==
    [][(/\ lc_cycles' = lc_cycles + 1
        /\ lc_closed_after_buy
        /\ lc_position = "none"
        /\ lc_branch' = "entry"
        /\ lc_signal'.signal = "BUY"
        /\ lc_signal'.strength >= mis_strength_threshold)
       => lc_entered']_vars

\* C39: at the end of every iteration of the loop of run_live_trading, also
\* of one in which an order placement raised, RiskManager.current_positions
\* equals the number of positions PortfolioManager holds and is at most
\* max_positions.
C39_PositionCountsAgree ==
    (lv_pc = "entry" /\ lv_iterations > 0)
        => /\ lv_current_positions = Cardinality(lv_positions)
           /\ lv_current_positions <= lv_max_positions

\* the end of an iteration in which an order placement raised while a
\* position was held
C39_Witness ==
    /\ lv_pc = "entry"
    /\ lv_iterations > 1
    /\ lv_raised = "order"
    /\ lv_current_positions = 1
    /\ lv_positions # {}

====
